---- MODULE Spec2Model ----
(***************************************************************************)
(* A model of the accessibility analyzer of                                *)
(* src/UI/Accessibility.Contrast.Analyzer.js: the contrast pass, the ARIA  *)
(* name/state pass, the issue synthesizer and the run()/cleanup()          *)
(* lifecycle with its deferred (setTimeout) callbacks (Spec); of single    *)
(* calls of adjustColorForContrast (SpecAdjust), calculateContrastRatio    *)
(* (SpecRatio) and the three createFixableIssue (SpecCategory); of the     *)
(* typography analyzer of src/code.js (SpecTypography) and the layout      *)
(* analyzer of src/UI/UI.UX.Layout.Analyzer.js (SpecLayout); of the       *)
(* three analyzers side by side (SpecSuite); and of parts of them          *)
(* followed on their own: the contrast pass step by step                   *)
(* (SpecContrastSteps), the highlight overlays (SpecHighlights), the       *)
(* renderers and exporters of the issue lists (SpecExport), the WCAG       *)
(* score (SpecScore), the contrast re-check of the results panel           *)
(* (SpecRecheck), the nesting rule of the layout analyzer (SpecNesting),   *)
(* the clipboard copy of the typography analyzers (SpecClipboard) and the  *)
(* export buttons (SpecButtons).                                           *)
(*                                                                         *)
(* Numbers.  JavaScript doubles are modelled in fixed point:               *)
(*   - an alpha value is held in hundredths (0 .. 100);                    *)
(*   - a linearised sRGB channel is held in 1e-5 units (sRGBLinear);       *)
(*   - a relative luminance is held in 1e-6 units;                         *)
(*   - a contrast ratio and its thresholds are held in thousandths,        *)
(*     rounded down, so that "ratio >= 4.5" is "ratio >= 4500";            *)
(*   - a font size in points is held in quarter points (px * 3).           *)
(*                                                                         *)
(* Scope.  The focus, keyboard, readability, touch-target and              *)
(* screen-reader passes read geometry and text statistics that the         *)
(* documents below do not carry; the audited page is taken to satisfy      *)
(* their rules, so they add no issue for it.                               *)
(***************************************************************************)
EXTENDS Integers, Sequences, FiniteSets, TLC

VARIABLES doc, appended, timers, clock, nextId, runs,
          fixableIssues, contrastIssues, ariaIssues, colorCache,
          lastRun, reported,
          adjust, pair, created, op,
          typo, layout

\* The page and the state of the accessibility analyzer.
analyzerVars == <<doc, appended, timers, clock, nextId, runs,
                  fixableIssues, contrastIssues, ariaIssues, colorCache,
                  lastRun, reported>>

\* The calls followed on their own: one call of adjustColorForContrast
\* (adjust), one of calculateContrastRatio (pair), one of
\* createFixableIssue (created), and the part a later specification
\* follows (op).
callVars == <<adjust, pair, created, op>>

\* The typography analyzer of src/code.js (typo) and the layout analyzer of
\* src/UI/UI.UX.Layout.Analyzer.js (layout), each a record of the page it
\* is run on, what it has attached to it, and its this.state.
toolVars == <<typo, layout>>

vars == <<analyzerVars, callVars, toolVars>>

\* The value of a variable that a specification does not use.
Idle == [pc |-> "idle"]

(***************************************************************************)
(* Bounds of the model.                                                    *)
(***************************************************************************)
\* run() is invoked at most MaxRuns times in a behaviour.
MaxRuns == 2

(***************************************************************************)
(* config.wcag (thresholds in thousandths, sizes in points).               *)
(***************************************************************************)
normalTextAA == 4500
normalTextAAA == 7000
largeTextAA == 3000
largeTextAAA == 4500
nonTextAA == 3000
nonTextAAA == 4500
large == 18
largeWeightBold == 14

(***************************************************************************)
(* Computed CSS colour values.  A value is the text getComputedStyle       *)
(* gives, held as the function name before "(" and the comma-separated     *)
(* numbers between the parentheses (alpha in hundredths).  "color" stands  *)
(* for the color(srgb ...) serialisation that the pattern /rgba?\(/ of     *)
(* parseColor does not match.                                              *)
(***************************************************************************)
Rgb(r, g, b) == [fn |-> "rgb", vals |-> <<r, g, b>>]
Rgba(r, g, b, a) == [fn |-> "rgba", vals |-> <<r, g, b, a>>]
CssWhite == Rgb(255, 255, 255)
CssBlack == Rgb(0, 0, 0)
CssGray118 == Rgb(118, 118, 118)
CssGray150 == Rgb(150, 150, 150)
CssTransparent == Rgba(0, 0, 0, 0)
CssHalfBlack == Rgba(0, 0, 0, 50)
CssHalfWhite == Rgba(255, 255, 255, 50)
CssSrgb == [fn |-> "color", vals |-> <<100, 0, 0>>]

\* The value parseColor returns for a string it cannot read.
Null == [null |-> TRUE]

\* Mutant of White: the default background is black.
WhiteAsBlack == [r |-> 0, g |-> 0, b |-> 0, a |-> 100]

\* The default background of getEffectiveBackgroundColor.
White == [r |-> 255, g |-> 255, b |-> 255, a |-> 100]

(***************************************************************************)
(* parseColor: the string is a computed value already, so the temporary    *)
(* div gives it back unchanged; the pattern accepts rgb(...) and           *)
(* rgba(...), the numbers are split at the commas, and a missing fourth    *)
(* number means alpha 1.                                                   *)
(***************************************************************************)
parseColor(colorString) ==
    IF colorString.fn \in {"rgb", "rgba"}
    THEN [r |-> colorString.vals[1], g |-> colorString.vals[2],
          b |-> colorString.vals[3],
          a |-> IF Len(colorString.vals) >= 4 THEN colorString.vals[4] ELSE 100]
    ELSE Null

\* Math.round of num / den for non-negative num.
RoundDiv(num, den) == (2 * num + den) \div (2 * den)

blendColors(foreground, background) ==
    LET alpha == foreground.a
        invAlpha == 100 - alpha
    IN [r |-> RoundDiv(foreground.r * alpha + background.r * invAlpha, 100),
        g |-> RoundDiv(foreground.g * alpha + background.g * invAlpha, 100),
        b |-> RoundDiv(foreground.b * alpha + background.b * invAlpha, 100),
        a |-> 100]

(***************************************************************************)
(* getRelativeLuminance.  sRGBLinear[c + 1] is                             *)
(*   c/255 <= 0.03928 ? (c/255)/12.92 : ((c/255 + 0.055)/1.055)^2.4        *)
(* in 1e-5 units, rounded to nearest, for c = 0 .. 255.                    *)
(***************************************************************************)
sRGBLinear ==
    <<
       0, 30, 61, 91, 121, 152, 182, 212, 243, 273, 304, 335, 368, 402, 439, 478,
       518, 561, 605, 651, 700, 750, 802, 857, 913, 972, 1033, 1096, 1161, 1229, 1298, 1370,
       1444, 1521, 1600, 1681, 1764, 1850, 1938, 2029, 2122, 2217, 2315, 2416, 2519, 2624, 2732, 2843,
       2956, 3071, 3190, 3310, 3434, 3560, 3689, 3820, 3955, 4092, 4231, 4374, 4519, 4667, 4817, 4971,
       5127, 5286, 5448, 5613, 5781, 5951, 6125, 6301, 6480, 6663, 6848, 7036, 7227, 7421, 7619, 7819,
       8022, 8228, 8438, 8650, 8866, 9084, 9306, 9531, 9759, 9990, 10224, 10462, 10702, 10946, 11193, 11444,
       11697, 11954, 12214, 12477, 12744, 13014, 13287, 13563, 13843, 14126, 14413, 14703, 14996, 15293, 15593, 15896,
       16203, 16513, 16827, 17144, 17465, 17789, 18116, 18447, 18782, 19120, 19462, 19807, 20156, 20508, 20864, 21223,
       21586, 21953, 22323, 22697, 23074, 23455, 23840, 24228, 24620, 25016, 25415, 25818, 26225, 26636, 27050, 27468,
       27889, 28315, 28744, 29177, 29614, 30054, 30499, 30947, 31399, 31855, 32314, 32778, 33245, 33716, 34191, 34670,
       35153, 35640, 36131, 36625, 37124, 37626, 38133, 38643, 39157, 39676, 40198, 40724, 41254, 41789, 42327, 42869,
       43415, 43966, 44520, 45079, 45641, 46208, 46778, 47353, 47932, 48515, 49102, 49693, 50289, 50888, 51492, 52100,
       52712, 53328, 53948, 54572, 55201, 55834, 56471, 57112, 57758, 58408, 59062, 59720, 60383, 61050, 61721, 62396,
       63076, 63760, 64448, 65141, 65837, 66539, 67244, 67954, 68669, 69387, 70110, 70838, 71569, 72306, 73046, 73791,
       74540, 75294, 76052, 76815, 77582, 78354, 79130, 79910, 80695, 81485, 82279, 83077, 83880, 84687, 85499, 86316,
       87137, 87962, 88792, 89627, 90466, 91310, 92158, 93011, 93869, 94731, 95597, 96469, 97345, 98225, 99110, 100000
    >>

getRelativeLuminance(color) ==
    (2126 * sRGBLinear[color.r + 1] + 7152 * sRGBLinear[color.g + 1]
        + 722 * sRGBLinear[color.b + 1]) \div 1000

Max(x, y) == IF x >= y THEN x ELSE y
Min(x, y) == IF x <= y THEN x ELSE y

\* Mutant of calculateContrastRatio: the two luminances are divided in the
\* order of the arguments.
calculateContrastRatioUnordered(color1, color2) ==
    (1000 * (getRelativeLuminance(color1) + 50000))
        \div (getRelativeLuminance(color2) + 50000)

calculateContrastRatio(color1, color2) ==
    LET l1 == getRelativeLuminance(color1)
        l2 == getRelativeLuminance(color2)
        lighter == Max(l1, l2)
        darker == Min(l1, l2)
    IN (1000 * (lighter + 50000)) \div (darker + 50000)

\* Mutant of getFontSizeInPt: the size in px is taken for the size in pt.
getFontSizeInPtUnconverted(fontSizePx) == fontSizePx * 4

\* getFontSizeInPt: px * 0.75, in quarter points.
getFontSizeInPt(fontSizePx) == fontSizePx * 3

\* parseInt(fontWeight): the number of a numeric string, NaN (-1 here, which
\* fails every >= comparison the code makes) for a keyword.
parseIntWeight(fontWeight) ==
    CASE fontWeight = "400" -> 400
      [] fontWeight = "500" -> 500
      [] fontWeight = "700" -> 700
      [] OTHER -> -1

(***************************************************************************)
(* The document.  A node is <<owner, instance, part>>: the nodes of the    *)
(* audited page are <<"page", 0, part>>; the nodes the analyzer appends    *)
(* (a notification, a results panel, a success panel) carry the instance   *)
(* number given when they were created.                                    *)
(***************************************************************************)
NoNode == <<"none", 0, "">>
PageNode(part) == <<"page", 0, part>>
Body == PageNode("body")

\* The page: html > body > (e1 > e2 > e3), e4, in document order.
PageParts == <<"html", "body", "e1", "e2", "e3", "e4">>

PageParent(part) ==
    CASE part = "html" -> NoNode
      [] part = "body" -> PageNode("html")
      [] part = "e1" -> Body
      [] part = "e2" -> PageNode("e1")
      [] part = "e3" -> PageNode("e2")
      [] part = "e4" -> Body

\* The style values and attributes of an element that the passes read.
Elem(tag, role, id, cls, color, bg, px, weight, text, hidden) ==
    [tagName |-> tag, role |-> role, id |-> id, className |-> cls,
     color |-> color, backgroundColor |-> bg, fontSize |-> px,
     fontWeight |-> weight, hasText |-> text, offsetParentNull |-> hidden]

(***************************************************************************)
(* The nodes of a results panel (createAccessibilityInterface,             *)
(* createHeader, createStatsDashboard), of a success panel                 *)
(* (createSuccessInterface) and of a notification                          *)
(* (showAccessibilityNotification), with the styles their cssText and      *)
(* innerHTML give.  A gradient "background" leaves background-color        *)
(* transparent; "position: fixed" makes offsetParent null; colour and      *)
(* font size are inherited from the container.                             *)
(***************************************************************************)
PanelParts ==
    <<"container", "header", "hleft", "title", "subtitle", "hright",
      "close", "stats", "grid", "box", "num">>

PanelParentPart(part) ==
    CASE part = "container" -> "body"
      [] part = "header" -> "container"
      [] part = "hleft" -> "header"
      [] part = "title" -> "hleft"
      [] part = "subtitle" -> "hleft"
      [] part = "hright" -> "header"
      [] part = "close" -> "hright"
      [] part = "stats" -> "container"
      [] part = "grid" -> "stats"
      [] part = "box" -> "grid"
      [] part = "num" -> "box"

PanelElem(part) ==
    CASE part = "container" ->
           Elem("DIV", "", "accessibility-analyzer-results", "", CssWhite,
                CssTransparent, 12, "400", TRUE, TRUE)
      [] part = "title" ->
           Elem("DIV", "", "", "", CssWhite, CssTransparent, 16, "700", TRUE, FALSE)
      [] part = "subtitle" ->
           Elem("DIV", "", "", "", CssWhite, CssTransparent, 11, "400", TRUE, FALSE)
      [] part = "close" ->
           Elem("BUTTON", "", "close-a11y-analyzer", "", CssWhite,
                CssTransparent, 18, "400", TRUE, FALSE)
      [] part = "stats" ->
           Elem("DIV", "", "", "", CssWhite, Rgb(42, 42, 62), 12, "400", TRUE, FALSE)
      [] part = "box" ->
           Elem("DIV", "", "", "", CssWhite, Rgba(255, 75, 87, 10), 12, "400",
                TRUE, FALSE)
      [] part = "num" ->
           Elem("DIV", "", "", "", Rgb(255, 71, 87), CssTransparent, 20, "700",
                TRUE, FALSE)
      [] OTHER ->
           Elem("DIV", "", "", "", CssWhite, CssTransparent, 12, "400", TRUE, FALSE)

SuccessParts == <<"container", "inner", "heading", "box", "close">>

SuccessParentPart(part) ==
    CASE part = "container" -> "body"
      [] part = "inner" -> "container"
      [] OTHER -> "inner"

SuccessElem(part) ==
    CASE part = "container" ->
           Elem("DIV", "", "accessibility-success-results", "", CssWhite,
                CssTransparent, 16, "400", TRUE, TRUE)
      [] part = "heading" ->
           Elem("DIV", "", "", "", CssWhite, CssTransparent, 24, "700", TRUE, FALSE)
      [] part = "box" ->
           Elem("DIV", "", "", "", CssWhite, Rgba(255, 255, 255, 20), 12, "400",
                TRUE, FALSE)
      [] part = "close" ->
           Elem("BUTTON", "", "close-success", "", CssWhite,
                Rgba(255, 255, 255, 20), 16, "400", TRUE, FALSE)
      [] OTHER ->
           Elem("DIV", "", "", "", CssWhite, CssTransparent, 16, "400", TRUE, FALSE)

NoteElem ==
    Elem("DIV", "", "", "", CssWhite, CssTransparent, 13, "500", TRUE, TRUE)

PartsOf(kind) ==
    CASE kind = "panel" -> PanelParts
      [] kind = "success" -> SuccessParts
      [] kind = "note" -> <<"container">>

\* The nodes of one appended subtree, in document order.
SubtreeNodes(a) ==
    [i \in 1..Len(PartsOf(a.kind)) |-> <<a.kind, a.inst, PartsOf(a.kind)[i]>>]

RECURSIVE Flatten(_)
Flatten(as) ==
    IF as = <<>> THEN <<>> ELSE SubtreeNodes(Head(as)) \o Flatten(Tail(as))

\* document.querySelectorAll('*') over the page and what is attached to it
\* (head and its children carry a skipped tag and are left out).
AllElements(d, as) ==
    [i \in 1..Len(PageParts) |-> PageNode(PageParts[i])] \o Flatten(as)

\* getComputedStyle and the attributes of a node.
Style(d, n) ==
    CASE n[1] = "page" -> d[n[3]]
      [] n[1] = "panel" -> PanelElem(n[3])
      [] n[1] = "success" -> SuccessElem(n[3])
      [] n[1] = "note" -> NoteElem

parentElement(n) ==
    CASE n[1] = "page" -> PageParent(n[3])
      [] n[1] = "panel" ->
           IF n[3] = "container" THEN Body ELSE <<n[1], n[2], PanelParentPart(n[3])>>
      [] n[1] = "success" ->
           IF n[3] = "container" THEN Body ELSE <<n[1], n[2], SuccessParentPart(n[3])>>
      [] n[1] = "note" -> Body

(***************************************************************************)
(* getEffectiveBackgroundColor: the loop runs while current is an element  *)
(* other than document.body; an opaque colour is returned as it is, a      *)
(* translucent one is blended over the effective background of the         *)
(* parent (which is never null, so the blend is always returned), a        *)
(* transparent or unreadable one moves the walk to the parent.             *)
(***************************************************************************)
RECURSIVE getEffectiveBackgroundColor(_, _)
getEffectiveBackgroundColor(d, element) ==
    IF element = NoNode \/ element = Body
    THEN White
    ELSE LET bgColor == parseColor(Style(d, element).backgroundColor)
         IN IF bgColor # Null /\ bgColor.a > 0
            THEN IF bgColor.a = 100
                 THEN bgColor
                 ELSE blendColors(bgColor,
                          getEffectiveBackgroundColor(d, parentElement(element)))
            ELSE getEffectiveBackgroundColor(d, parentElement(element))

\* The strings getEffectiveBackgroundColor hands to parseColor, which
\* stores each of them in state.colorCache.
RECURSIVE backgroundStrings(_, _)
backgroundStrings(d, element) ==
    IF element = NoNode \/ element = Body
    THEN {}
    ELSE LET str == Style(d, element).backgroundColor
             bgColor == parseColor(str)
         IN IF bgColor # Null /\ bgColor.a = 100
            THEN {str}
            ELSE {str} \cup backgroundStrings(d, parentElement(element))

\* Mutant of getContrastRequirements: the size thresholds are exclusive.
getContrastRequirementsExclusive(fontSize, fontWeight, el) ==
    LET isLargeText ==
            \/ fontSize > 4 * large
            \/ /\ fontSize > 4 * largeWeightBold
               /\ (fontWeight = "bold" \/ parseIntWeight(fontWeight) >= 700)
        isNonText ==
            \/ el.tagName = "BUTTON"
            \/ (el.role # "" /\ el.role \in {"button", "tab", "menuitem"})
    IN IF isNonText
       THEN [type |-> "non-text", aa |-> nonTextAA, aaa |-> nonTextAAA]
       ELSE IF isLargeText
            THEN [type |-> "large-text", aa |-> largeTextAA, aaa |-> largeTextAAA]
            ELSE [type |-> "normal-text", aa |-> normalTextAA, aaa |-> normalTextAAA]

getContrastRequirements(fontSize, fontWeight, el) ==
    LET isLargeText ==
            \/ fontSize >= 4 * large
            \/ /\ fontSize >= 4 * largeWeightBold
               /\ (fontWeight = "bold" \/ parseIntWeight(fontWeight) >= 700)
        isNonText ==
            \/ el.tagName = "BUTTON"
            \/ (el.role # "" /\ el.role \in {"button", "tab", "menuitem"})
    IN IF isNonText
       THEN [type |-> "non-text", aa |-> nonTextAA, aaa |-> nonTextAAA]
       ELSE IF isLargeText
            THEN [type |-> "large-text", aa |-> largeTextAA, aaa |-> largeTextAAA]
            ELSE [type |-> "normal-text", aa |-> normalTextAA, aaa |-> normalTextAAA]

checkWCAGCompliance(contrastRatio, requirements) ==
    [ratio |-> contrastRatio,
     passAA |-> contrastRatio >= requirements.aa,
     passAAA |-> contrastRatio >= requirements.aaa,
     requirements |-> requirements]

(***************************************************************************)
(* Lookup tables of the issue synthesizer.                                 *)
(***************************************************************************)
getAccessibilityCategory(type) ==
    CASE type \in {"contrast-aa", "contrast-aaa"} -> "visual"
      [] type = "focus-accessibility" -> "keyboard"
      [] type \in {"missing-accessible-name", "missing-required-state"} -> "semantic"
      [] type = "touch-target-size" -> "motor"
      [] type = "readability-issues" -> "cognitive"
      [] OTHER -> "other"

getWCAGCriteria(type) ==
    CASE type = "contrast-aa" -> "1.4.3 Contrast (Minimum)"
      [] type = "contrast-aaa" -> "1.4.6 Contrast (Enhanced)"
      [] type = "focus-accessibility" -> "2.4.7 Focus Visible"
      [] type \in {"missing-accessible-name", "missing-required-state"} ->
           "4.1.2 Name, Role, Value"
      [] type = "touch-target-size" -> "2.5.5 Target Size"
      [] type = "readability-issues" -> "3.1.5 Reading Level"
      [] OTHER -> "General"

(***************************************************************************)
(* generateSelector.  The selector engine rejects (throws a SyntaxError    *)
(* for) a class selector built from a class name of RejectedClassNames;    *)
(* an element with an id gets "#id" without any query.                     *)
(***************************************************************************)
RejectedClassNames == {"md:flex"}

\* What a call that threw returns in the model.
Threw == [threw |-> TRUE, id |-> "", tag |-> "", cls |-> "", nth |-> 0]

\* indexOf(x) + 1 in a sequence that holds x.
IndexOf(ns, x) == CHOOSE i \in 1..Len(ns) : ns[i] = x

generateSelector(d, as, element) ==
    LET el == Style(d, element)
        matching(n) ==
            /\ Style(d, n).tagName = el.tagName
            /\ (el.className = "" \/ Style(d, n).className = el.className)
        similarElements == SelectSeq(AllElements(d, as), matching)
        sibling(n) ==
            /\ parentElement(n) = parentElement(element)
            /\ Style(d, n).tagName = el.tagName
            /\ Style(d, n).className = el.className
        siblings == SelectSeq(AllElements(d, as), sibling)
    IN IF el.id # ""
       THEN [threw |-> FALSE, id |-> el.id, tag |-> "", cls |-> "", nth |-> 0]
       ELSE IF el.className \in RejectedClassNames
            THEN Threw
            ELSE [threw |-> FALSE, id |-> "", tag |-> el.tagName,
                  cls |-> el.className,
                  nth |-> IF /\ Len(similarElements) > 1
                             /\ parentElement(element) # NoNode
                             /\ Len(siblings) > 1
                          THEN IndexOf(siblings, element)
                          ELSE 0]

(***************************************************************************)
(* The state of a pass: the lists of this.state it appends to, the colour  *)
(* cache, and whether an exception is propagating (threw), after which     *)
(* nothing more is done.                                                   *)
(***************************************************************************)
EmptyState ==
    [fixableIssues |-> <<>>, contrastIssues |-> <<>>, ariaIssues |-> <<>>,
     colorCache |-> {}, threw |-> FALSE]

\* The push of createFixableIssue, reached when building the fixes (the
\* selector of the element) has not thrown.
pushFixableIssue(st, selector, type, severity, element, data) ==
    IF selector.threw
    THEN [st EXCEPT !.threw = TRUE]
    ELSE [st EXCEPT !.fixableIssues = Append(@,
             [issueType |-> type, severity |-> severity,
              category |-> getAccessibilityCategory(type),
              affectedElements |-> 1, element |-> element,
              selector |-> selector, data |-> data,
              wcagCriteria |-> getWCAGCriteria(type)])]

createFixableIssue(st, d, as, type, severity, element, data) ==
    pushFixableIssue(st, generateSelector(d, as, element), type, severity,
                     element, data)

\* Mutant of addContrastIssue: the severity and the type follow the AAA
\* verdict instead of the AA verdict.
addContrastIssueByAAA(st, d, as, element, data) ==
    LET severity == IF ~data.wcagResults.passAAA THEN "critical" ELSE "warning"
        issueType == IF data.wcagResults.passAAA THEN "contrast-aaa" ELSE "contrast-aa"
        pushed == [st EXCEPT !.contrastIssues = Append(@,
                      [element |-> element, severity |-> severity,
                       type |-> "contrast", data |-> data])]
    IN createFixableIssue(pushed, d, as, issueType, severity, element, data)

addContrastIssue(st, d, as, element, data) ==
    LET severity == IF ~data.wcagResults.passAA THEN "critical" ELSE "warning"
        issueType == IF data.wcagResults.passAA THEN "contrast-aaa" ELSE "contrast-aa"
        pushed == [st EXCEPT !.contrastIssues = Append(@,
                      [element |-> element, severity |-> severity,
                       type |-> "contrast", data |-> data])]
    IN createFixableIssue(pushed, d, as, issueType, severity, element, data)

\* The end of the body of the forEach of analyzeColorContrast: the check
\* against the requirements and the report.
contrastVerdict(st, d, as, element, data) ==
    IF ~data.wcagResults.passAA \/ ~data.wcagResults.passAAA
    THEN addContrastIssue(st, d, as, element, data)
    ELSE st

\* The data object handed to addContrastIssue.
contrastData(textColor, backgroundColor, contrastRatio, fontSize, fontWeight, requirements) ==
    [textColor |-> textColor, backgroundColor |-> backgroundColor,
     contrastRatio |-> contrastRatio, fontSize |-> fontSize,
     fontWeight |-> fontWeight, requirements |-> requirements,
     wcagResults |-> checkWCAGCompliance(contrastRatio, requirements)]

\* Mutant of contrastColors: a null text colour is not tested for, and
\* reading its channels throws.
contrastColorsUnguarded(st, d, as, element, el, textColor, backgroundColor) ==
    IF textColor = Null
    THEN [st EXCEPT !.threw = TRUE]
    ELSE contrastVerdict(st, d, as, element,
             contrastData(textColor, backgroundColor,
                 calculateContrastRatio(textColor, backgroundColor),
                 getFontSizeInPt(el.fontSize), el.fontWeight,
                 getContrastRequirements(getFontSizeInPt(el.fontSize),
                                         el.fontWeight, el)))

\* The middle of the body: the two colours are parsed (and cached), and an
\* element whose text colour is null is left.
contrastColors(st, d, as, element, el, textColor, backgroundColor) ==
    IF textColor = Null
    THEN st
    ELSE contrastVerdict(st, d, as, element,
             contrastData(textColor, backgroundColor,
                 calculateContrastRatio(textColor, backgroundColor),
                 getFontSizeInPt(el.fontSize), el.fontWeight,
                 getContrastRequirements(getFontSizeInPt(el.fontSize),
                                         el.fontWeight, el)))

\* The body of the forEach of analyzeColorContrast for one element.
contrastElement(st, d, as, element) ==
    LET el == Style(d, element)
    IN IF ~el.hasText \/ el.tagName \in {"SCRIPT", "STYLE", "META", "LINK", "HEAD"}
       THEN st
       ELSE IF el.offsetParentNull /\ el.tagName # "HTML"
       THEN st
       ELSE contrastColors(
                [st EXCEPT !.colorCache =
                    @ \cup {el.color} \cup backgroundStrings(d, element)],
                d, as, element, el, parseColor(el.color),
                getEffectiveBackgroundColor(d, element))

\* The forEach of analyzeColorContrast: the body for each element in
\* order, until one throws.
RECURSIVE contrastLoop(_, _, _, _)
contrastLoop(st, d, as, elements) ==
    IF elements = <<>> \/ st.threw
    THEN st
    ELSE contrastLoop(contrastElement(st, d, as, Head(elements)), d, as,
                      Tail(elements))

analyzeColorContrast(st, d, as) ==
    contrastLoop(st, d, as, AllElements(d, as))

(***************************************************************************)
(* The ARIA pass.  The documents carry no aria-* attribute, no title, no   *)
(* placeholder and no label element, so getAccessibleName comes down to    *)
(* the label[for="id"] query of an INPUT with an id, which the selector    *)
(* engine rejects when the id holds a double quote, and then to the text   *)
(* content.                                                                *)
(***************************************************************************)
QuotedIds == {"a\"b"}

getAccessibleName(el) ==
    IF el.tagName = "INPUT" /\ el.id \in QuotedIds
    THEN "threw"
    ELSE IF el.hasText THEN "name" ELSE "null"

getImplicitRole(el) ==
    CASE el.tagName = "BUTTON" -> "button"
      [] el.tagName \in {"INPUT", "TEXTAREA"} -> "textbox"
      [] el.tagName = "SELECT" -> "combobox"
      [] OTHER -> ""

getRequiredAriaStates(role) ==
    CASE role \in {"checkbox", "radio", "menuitemcheckbox", "menuitemradio"} ->
           <<"aria-checked">>
      [] role \in {"option", "tab"} -> <<"aria-selected">>
      [] role = "combobox" -> <<"aria-expanded">>
      [] role \in {"listbox", "tree", "treegrid", "grid"} -> <<"aria-multiselectable">>
      [] role = "tablist" -> <<"aria-orientation">>
      [] role \in {"slider", "spinbutton", "progressbar"} ->
           <<"aria-valuenow", "aria-valuemin", "aria-valuemax">>
      [] role = "scrollbar" ->
           <<"aria-controls", "aria-valuenow", "aria-valuemin", "aria-valuemax">>
      [] OTHER -> <<>>

\* config.requiredRoles: the roles a tag may carry ({} when the tag has no entry).
requiredRoles(tagName) ==
    CASE tagName = "BUTTON" -> {"button", "link", "menuitem"}
      [] tagName = "A" -> {"link", "button", "tab", "menuitem"}
      [] tagName = "INPUT" -> {"textbox", "searchbox", "button", "checkbox", "radio"}
      [] OTHER -> {}

addAriaIssue(st, d, as, element, type) ==
    LET severity ==
            IF type \in {"missing-accessible-name", "missing-required-state",
                         "aria-conflict"}
            THEN "critical" ELSE "warning"
        pushed == [st EXCEPT !.ariaIssues = Append(@,
                      [element |-> element, severity |-> severity, type |-> type])]
    IN createFixableIssue(pushed, d, as, type, severity, element, [issue |-> type])

checkAriaLabels(st, d, as, element) ==
    LET el == Style(d, element)
        needsAccessibleName ==
            \/ el.tagName \in {"BUTTON", "A", "INPUT", "TEXTAREA", "SELECT"}
            \/ el.role \in {"button", "link", "textbox", "combobox", "listbox",
                            "tab", "menuitem"}
    IN IF ~needsAccessibleName
       THEN st
       ELSE CASE getAccessibleName(el) = "threw" -> [st EXCEPT !.threw = TRUE]
              [] getAccessibleName(el) = "null" ->
                   addAriaIssue(st, d, as, element, "missing-accessible-name")
              [] OTHER -> st

\* Every role of the documents is a valid ARIA role, so only the match of
\* role and tag can fail.
checkAriaRoles(st, d, as, element) ==
    LET el == Style(d, element)
    IN IF /\ el.role # ""
          /\ requiredRoles(el.tagName) # {}
          /\ el.role \notin requiredRoles(el.tagName)
       THEN addAriaIssue(st, d, as, element, "inappropriate-role")
       ELSE st

\* One missing-required-state issue per required state: the documents
\* carry none of the state attributes.
RECURSIVE requiredStatesLoop(_, _, _, _, _)
requiredStatesLoop(st, d, as, element, states) ==
    IF states = <<>> \/ st.threw
    THEN st
    ELSE requiredStatesLoop(
             addAriaIssue(st, d, as, element, "missing-required-state"),
             d, as, element, Tail(states))

checkAriaStates(st, d, as, element) ==
    LET el == Style(d, element)
        role == IF el.role # "" THEN el.role ELSE getImplicitRole(el)
    IN requiredStatesLoop(st, d, as, element, getRequiredAriaStates(role))

\* The body of the forEach of analyzeAriaCompliance (checkAriaConflicts and
\* checkRequiredAriaAttributes find nothing without aria-* attributes).
ariaAfterRoles(st, d, as, element) ==
    IF st.threw THEN st ELSE checkAriaStates(st, d, as, element)

ariaAfterLabels(st, d, as, element) ==
    IF st.threw THEN st
    ELSE ariaAfterRoles(checkAriaRoles(st, d, as, element), d, as, element)

ariaElement(st, d, as, element) ==
    ariaAfterLabels(checkAriaLabels(st, d, as, element), d, as, element)

RECURSIVE ariaLoop(_, _, _, _)
ariaLoop(st, d, as, elements) ==
    IF elements = <<>> \/ st.threw
    THEN st
    ELSE ariaLoop(ariaElement(st, d, as, Head(elements)), d, as, Tail(elements))

analyzeAriaCompliance(st, d, as) ==
    ariaLoop(st, d, as, AllElements(d, as))

\* analyzeAccessibility: the passes in order; an exception ends it.
afterColorContrast(st, d, as) ==
    IF st.threw THEN st ELSE analyzeAriaCompliance(st, d, as)

analyzeAccessibility(st, d, as) ==
    afterColorContrast(analyzeColorContrast(st, d, as), d, as)

(***************************************************************************)
(* Documents.                                                              *)
(***************************************************************************)
\* The element e3, by kind.
Leaf(kind, cls, color, px, weight) ==
    CASE kind = "button" ->
           Elem("BUTTON", "", "", cls, color, CssTransparent, px, weight, TRUE, FALSE)
      [] kind = "role" ->
           Elem("DIV", "button", "", cls, color, CssTransparent, px, weight, TRUE, FALSE)
      [] OTHER ->
           Elem("DIV", "", "", cls, color, CssTransparent, px, weight, TRUE, FALSE)

\* The element e4, by variant.
Other(variant) ==
    CASE variant = "input" ->
           Elem("INPUT", "", "a\"b", "", CssBlack, CssWhite, 16, "400", FALSE, FALSE)
      [] variant = "unnamed" ->
           Elem("INPUT", "", "email", "", CssBlack, CssWhite, 16, "400", FALSE, FALSE)
      [] variant = "tab" ->
           Elem("DIV", "tab", "", "", CssBlack, CssTransparent, 16, "400", TRUE, FALSE)
      [] OTHER ->
           Elem("DIV", "", "", "", CssGray150, CssTransparent, 16, "400", TRUE, FALSE)

MkDoc(htmlBg, bodyBg, e1Bg, e2Bg, leaf, other) ==
    [part \in {"html", "body", "e1", "e2", "e3", "e4"} |->
        CASE part = "html" ->
               Elem("HTML", "", "", "", CssBlack, htmlBg, 16, "400", TRUE, FALSE)
          [] part = "body" ->
               Elem("BODY", "", "", "", CssBlack, bodyBg, 16, "400", TRUE, TRUE)
          [] part = "e1" ->
               Elem("DIV", "", "", "", CssBlack, e1Bg, 16, "400", TRUE, FALSE)
          [] part = "e2" ->
               Elem("DIV", "", "", "", CssBlack, e2Bg, 16, "400", TRUE, FALSE)
          [] part = "e3" -> leaf
          [] part = "e4" -> other]

\* Documents that vary the backgrounds of the ancestor chain of e3.
BgDocs ==
    {MkDoc(htmlBg, bodyBg, e1Bg, e2Bg, Leaf("div", "", color, 16, "400"), Other("div")) :
        htmlBg \in {CssTransparent, CssBlack},
        bodyBg \in {CssTransparent, CssBlack, CssHalfBlack},
        e1Bg \in {CssTransparent, CssBlack, CssHalfBlack},
        e2Bg \in {CssTransparent, CssWhite, CssHalfWhite},
        color \in {CssBlack, CssGray118, CssWhite}}

\* Documents that vary the kind, font and colour of e3.
TypoDocs ==
    {MkDoc(CssTransparent, CssTransparent, e1Bg, CssTransparent,
           Leaf(kind, "card", color, px, weight), Other("div")) :
        e1Bg \in {CssTransparent, CssBlack},
        kind \in {"div", "button", "role"},
        color \in {CssBlack, CssGray118, CssWhite},
        px \in {16, 18, 19, 24},
        weight \in {"400", "700", "bold"}}

\* Documents that vary what may go wrong with an element: the colour and
\* the class name of e3, and the element e4.
AnomalyDocs ==
    {MkDoc(CssTransparent, CssTransparent, e1Bg, CssTransparent,
           Leaf("div", cls, color, 16, "400"), Other(variant)) :
        e1Bg \in {CssTransparent, CssBlack},
        cls \in {"card", "md:flex"},
        color \in {CssBlack, CssGray118, CssWhite, CssTransparent, CssSrgb},
        variant \in {"div", "input", "unnamed", "tab"}}

Documents == BgDocs \cup TypoDocs \cup AnomalyDocs

(***************************************************************************)
(* Deferred callbacks.  A pending setTimeout is [kind, inst, delay, seq]:  *)
(* delay in milliseconds, seq the number of the handler that scheduled     *)
(* it.  The time between two handlers is not fixed, so a timer may fire    *)
(* unless another pending timer is due before it whatever that time is:    *)
(* one scheduled no later with a delay no longer.                          *)
(***************************************************************************)
CanFire(t) ==
    \A u \in timers \ {t} :
        ~(u.seq <= t.seq /\ u.delay <= t.delay /\ (u.seq < t.seq \/ u.delay < t.delay))

\* showAccessibilityNotification: the node appended and its removal, 400 ms
\* after the 4000 ms timer that fades it out.
Note(inst) == [kind |-> "note", inst |-> inst]
NoteTimer(inst, seq) == [kind |-> "removeNote", inst |-> inst, delay |-> 4400, seq |-> seq]

\* document.getElementById('accessibility-analyzer-results'): the first
\* attached results panel, as a set of at most one element.
FirstPanel(as) ==
    LET panels == SelectSeq(as, LAMBDA a : a.kind = "panel")
    IN IF panels = <<>> THEN {} ELSE {Head(panels)}

\* The timers cleanup() schedules: the removal of the panel it found.
cleanupTimers(as, seq) ==
    {[kind |-> "removePanel", inst |-> p.inst, delay |-> 300, seq |-> seq] :
        p \in FirstPanel(as)}

\* What a consumer compares of an issue list: the type, severity, selector
\* and affected-element count of each issue, in order.
Summary(issues) ==
    [i \in 1..Len(issues) |->
        [issueType |-> issues[i].issueType, severity |-> issues[i].severity,
         selector |-> issues[i].selector,
         affectedElements |-> issues[i].affectedElements]]

Init ==
    /\ op = Idle
    /\ doc \in Documents
    /\ appended = <<>>
    /\ timers = {}
    /\ clock = 0
    /\ nextId = 1
    /\ runs = 0
    /\ fixableIssues = <<>>
    /\ contrastIssues = <<>>
    /\ ariaIssues = <<>>
    /\ colorCache = {}
    /\ lastRun = "none"
    /\ reported = <<>>
    /\ adjust = Idle
    /\ pair = Idle
    /\ created = Idle
    /\ typo = Idle
    /\ layout = Idle

(***************************************************************************)
(* run(): the loading notification, the reset of this.state, cleanup(),    *)
(* the passes and consolidateIssues() (which adds nothing: the passes      *)
(* modelled have put their issues in fixableIssues already, and its        *)
(* lookup of contrast issues compares 'contrast' with 'contrast-aa(a)'     *)
(* and so never builds a selector), then either the deferred creation of   *)
(* the interface or, when a pass threw, the error notification.            *)
(***************************************************************************)
\* The end of run(): st is this.state as the try block left it, loading
\* the attached nodes with the loading notification.
runOutcome(loading, st) ==
    /\ fixableIssues' = st.fixableIssues
    /\ contrastIssues' = st.contrastIssues
    /\ ariaIssues' = st.ariaIssues
    /\ colorCache' = st.colorCache
    /\ reported' = Append(reported, Summary(st.fixableIssues))
    /\ IF st.threw
       THEN /\ lastRun' = "error"
            /\ appended' = Append(loading, Note(nextId + 1))
            /\ timers' = timers \cup cleanupTimers(loading, clock)
                           \cup {NoteTimer(nextId, clock),
                                 NoteTimer(nextId + 1, clock)}
            /\ nextId' = nextId + 2
       ELSE /\ lastRun' = "ok"
            /\ appended' = loading
            /\ timers' = timers \cup cleanupTimers(loading, clock)
                           \cup {NoteTimer(nextId, clock),
                                 [kind |-> "interface", inst |-> 0,
                                  delay |-> 1000, seq |-> clock]}
            /\ nextId' = nextId + 1

\* this.state as run() finds it.
thisState ==
    [fixableIssues |-> fixableIssues, contrastIssues |-> contrastIssues,
     ariaIssues |-> ariaIssues, colorCache |-> colorCache, threw |-> FALSE]

\* The assignment of a new this.state in run(), and the
\* this.state.colorCache.clear() of the cleanup() that follows it.
resetState(st) ==
    [st EXCEPT !.fixableIssues = <<>>, !.contrastIssues = <<>>, !.ariaIssues = <<>>,
               !.colorCache = {}]

runAnalysis(loading) ==
    runOutcome(loading, analyzeAccessibility(resetState(thisState), doc, loading))

Run ==
    /\ runs < MaxRuns
    /\ runAnalysis(Append(appended, Note(nextId)))
    /\ runs' = runs + 1
    /\ clock' = clock + 1
    /\ UNCHANGED <<doc, callVars, toolVars>>

\* The callback run() defers by 1000 ms: the success interface when
\* this.state holds no fixable issue, the results panel otherwise, and a
\* notification either way.
FireInterface ==
    \E t \in timers :
        /\ t.kind = "interface"
        /\ CanFire(t)
        /\ appended' =
              IF fixableIssues = <<>>
              THEN appended \o <<Note(nextId), [kind |-> "success", inst |-> nextId + 1]>>
              ELSE appended \o <<[kind |-> "panel", inst |-> nextId + 1], Note(nextId)>>
        /\ timers' = (timers \ {t}) \cup {NoteTimer(nextId, clock)}
        /\ nextId' = nextId + 2
        /\ clock' = clock + 1
        /\ UNCHANGED <<doc, runs, fixableIssues, contrastIssues, ariaIssues,
                       colorCache, lastRun, reported, callVars, toolVars>>

\* The callback of cleanup(): the container is detached if still attached.
FireRemovePanel ==
    \E t \in timers :
        /\ t.kind = "removePanel"
        /\ CanFire(t)
        /\ appended' = SelectSeq(appended, LAMBDA a : ~(a.kind = "panel" /\ a.inst = t.inst))
        /\ timers' = timers \ {t}
        /\ UNCHANGED <<doc, clock, nextId, runs, fixableIssues, contrastIssues,
                       ariaIssues, colorCache, lastRun, reported, callVars, toolVars>>

\* The callback of showAccessibilityNotification.
FireRemoveNote ==
    \E t \in timers :
        /\ t.kind = "removeNote"
        /\ CanFire(t)
        /\ appended' = SelectSeq(appended, LAMBDA a : ~(a.kind = "note" /\ a.inst = t.inst))
        /\ timers' = timers \ {t}
        /\ UNCHANGED <<doc, clock, nextId, runs, fixableIssues, contrastIssues,
                       ariaIssues, colorCache, lastRun, reported, callVars, toolVars>>

Next == Run \/ FireInterface \/ FireRemovePanel \/ FireRemoveNote

Spec == Init /\ [][Next]_vars

(***************************************************************************)
(* adjustColorForContrast, followed one iteration of its while loop at a   *)
(* time.  adjust holds the arguments, the locals adjustedColor,            *)
(* currentRatio and iterations, and the ratios computed so far (visited:   *)
(* the ratio of the original colour first, then one per iteration).        *)
(***************************************************************************)
\* const maxIterations = 25
maxIterations == 25

\* const step = direction === 'darken' ? -10 : 10
step(direction) == IF direction = "darken" THEN -10 ELSE 10

\* Mutant of adjustChannel: the step is taken twice.
adjustChannelByTwenty(c, direction) ==
    IF direction = "darken"
    THEN Max(0, c + 2 * step(direction))
    ELSE Min(255, c + 2 * step(direction))

\* One channel after one iteration.
adjustChannel(c, direction) ==
    IF direction = "darken"
    THEN Max(0, c + step(direction))
    ELSE Min(255, c + step(direction))

\* The body of the loop up to the new ratio: the three channels move.
adjustBody(color, direction) ==
    [color EXCEPT !.r = adjustChannel(@, direction),
                  !.g = adjustChannel(@, direction),
                  !.b = adjustChannel(@, direction)]

\* The locals after the statements before the loop.
adjustEntry(color, bgColor, targetRatio, direction, ratio) ==
    [pc |-> "loop", color |-> color, bgColor |-> bgColor,
     targetRatio |-> targetRatio, direction |-> direction,
     adjustedColor |-> color, currentRatio |-> ratio, iterations |-> 0,
     visited |-> <<ratio>>]

\* The locals after one iteration that moved the colour to moved.
adjustAfter(a, moved, ratio) ==
    [a EXCEPT !.adjustedColor = moved, !.currentRatio = ratio,
              !.iterations = @ + 1, !.visited = Append(@, ratio)]

\* The condition of the while loop.
adjustContinues(a) ==
    a.currentRatio < a.targetRatio /\ a.iterations < maxIterations

\* The while loop, from the locals a on.
RECURSIVE adjustLoop(_)
adjustLoop(a) ==
    IF adjustContinues(a)
    THEN adjustLoop(adjustAfter(a, adjustBody(a.adjustedColor, a.direction),
                        calculateContrastRatio(adjustBody(a.adjustedColor, a.direction),
                                               a.bgColor)))
    ELSE a

\* adjustColorForContrast: the locals when the loop is left, of which
\* adjustedColor is returned.
adjustColorForContrast(color, bgColor, targetRatio, direction) ==
    adjustLoop(adjustEntry(color, bgColor, targetRatio, direction,
                           calculateContrastRatio(color, bgColor)))

\* colorToHex: "#" and the two hexadecimal digits of each channel, held as
\* the six digit values.
colorToHex(color) ==
    <<color.r \div 16, color.r % 16, color.g \div 16, color.g % 16,
      color.b \div 16, color.b % 16>>

\* Mutant of suggestContrastFix: the solver is given the AAA ratio.
suggestContrastFixForAAA(data) ==
    [color |-> colorToHex(adjustColorForContrast(data.textColor, data.backgroundColor,
                              data.requirements.aaa, "darken").adjustedColor),
     background |-> colorToHex(adjustColorForContrast(data.backgroundColor, data.textColor,
                                   data.requirements.aaa, "lighten").adjustedColor),
     iterations |->
         adjustColorForContrast(data.textColor, data.backgroundColor,
                                data.requirements.aaa, "darken").iterations
         + adjustColorForContrast(data.backgroundColor, data.textColor,
                                  data.requirements.aaa, "lighten").iterations]

\* suggestContrastFix: the 'color' and 'background-color' of the object
\* returned, with the number of iterations the two solver calls made.
suggestContrastFix(data) ==
    [color |-> colorToHex(adjustColorForContrast(data.textColor, data.backgroundColor,
                              data.requirements.aa, "darken").adjustedColor),
     background |-> colorToHex(adjustColorForContrast(data.backgroundColor, data.textColor,
                                   data.requirements.aa, "lighten").adjustedColor),
     iterations |->
         adjustColorForContrast(data.textColor, data.backgroundColor,
                                data.requirements.aa, "darken").iterations
         + adjustColorForContrast(data.backgroundColor, data.textColor,
                                  data.requirements.aa, "lighten").iterations]

\* The accessibility analyzer as constructed, on a page that is not run.
AnalyzerIdle ==
    /\ doc = MkDoc(CssTransparent, CssTransparent, CssTransparent, CssTransparent,
                   Leaf("div", "", CssBlack, 16, "400"), Other("div"))
    /\ appended = <<>>
    /\ timers = {}
    /\ clock = 0
    /\ nextId = 1
    /\ runs = 0
    /\ fixableIssues = <<>>
    /\ contrastIssues = <<>>
    /\ ariaIssues = <<>>
    /\ colorCache = {}
    /\ lastRun = "none"
    /\ reported = <<>>

\* Colours handed to adjustColorForContrast and calculateContrastRatio:
\* greys over the whole range, near both bounds, and colours whose
\* channels differ.
Gray(v) == [r |-> v, g |-> v, b |-> v, a |-> 100]
CallColors ==
    {Gray(v) : v \in {0, 5, 100, 118, 200, 250, 255}}
        \cup {[r |-> 255, g |-> 0, b |-> 0, a |-> 100],
              [r |-> 3, g |-> 128, b |-> 252, a |-> 100]}

InitAdjust ==
    /\ op = Idle
    /\ AnalyzerIdle
    /\ pair = Idle
    /\ created = Idle
    /\ typo = Idle
    /\ layout = Idle
    /\ \E color \in CallColors, bgColor \in CallColors,
          targetRatio \in {largeTextAA, normalTextAA, normalTextAAA},
          direction \in {"darken", "lighten"} :
          adjust = adjustEntry(color, bgColor, targetRatio, direction,
                               calculateContrastRatio(color, bgColor))

\* One iteration of the while loop.
AdjustIterate ==
    /\ adjust.pc = "loop"
    /\ adjustContinues(adjust)
    /\ adjust' = adjustAfter(adjust, adjustBody(adjust.adjustedColor, adjust.direction),
                     calculateContrastRatio(
                         adjustBody(adjust.adjustedColor, adjust.direction),
                         adjust.bgColor))
    /\ UNCHANGED <<analyzerVars, toolVars, pair, created, op>>

\* The loop is left and adjustedColor returned.
AdjustReturn ==
    /\ adjust.pc = "loop"
    /\ ~adjustContinues(adjust)
    /\ adjust' = [adjust EXCEPT !.pc = "returned"]
    /\ UNCHANGED <<analyzerVars, toolVars, pair, created, op>>

NextAdjust == AdjustIterate \/ AdjustReturn

SpecAdjust == InitAdjust /\ [][NextAdjust]_vars

(***************************************************************************)
(* calculateContrastRatio, called on a pair of colours in both orders.     *)
(* pair holds the two colours and, as sequences of at most one ratio, what *)
(* the two calls have returned.                                             *)
(***************************************************************************)
\* Colours whose channels take the two ends and the middle of the range,
\* with the colours of CallColors.
PairColors ==
    CallColors \cup
        {[r |-> r, g |-> g, b |-> b, a |-> 100] : r \in {0, 128, 255},
             g \in {0, 128, 255}, b \in {0, 128, 255}}

InitRatio ==
    /\ op = Idle
    /\ AnalyzerIdle
    /\ adjust = Idle
    /\ created = Idle
    /\ typo = Idle
    /\ layout = Idle
    /\ \E color1 \in PairColors, color2 \in PairColors :
          pair = [pc |-> "colors", color1 |-> color1, color2 |-> color2,
                  forward |-> <<>>, backward |-> <<>>]

\* calculateContrastRatio(color1, color2)
RatioForward ==
    /\ pair.pc = "colors"
    /\ pair.forward = <<>>
    /\ pair' = [pair EXCEPT !.forward = <<calculateContrastRatio(pair.color1, pair.color2)>>]
    /\ UNCHANGED <<analyzerVars, toolVars, adjust, created, op>>

\* calculateContrastRatio(color2, color1)
RatioBackward ==
    /\ pair.pc = "colors"
    /\ pair.backward = <<>>
    /\ pair' = [pair EXCEPT !.backward = <<calculateContrastRatio(pair.color2, pair.color1)>>]
    /\ UNCHANGED <<analyzerVars, toolVars, adjust, created, op>>

NextRatio == RatioForward \/ RatioBackward

SpecRatio == InitRatio /\ [][NextRatio]_vars

(***************************************************************************)
(* The typography analyzer of src/code.js.  typo holds the page it is run  *)
(* on, what it has attached to it, and its this.state: fontMap as the      *)
(* sequence of its entries in insertion order (the order Map.forEach       *)
(* visits them in), issues and fixableIssues.                              *)
(*                                                                         *)
(* A computed font-family is held as the sequence of the pieces of its     *)
(* text between the characters "|" (a quoted family name may hold one),    *)
(* with "|" itself as a piece; the other three values hold no "|".  The    *)
(* key of an entry is the text of the template literal of line 44, as such *)
(* a sequence.  Line-height ratios are compared in tenths.                 *)
(***************************************************************************)
minLineHeightRatio == 12
maxLineHeightRatio == 18
redundancyThreshold == 1
suspiciousWeights == {"100", "200", "800", "900"}
commonFontSizes == {"12px", "14px", "16px", "18px", "20px", "24px", "32px"}

\* parseFloat of a computed length; "normal" gives NaN, for which every
\* comparison is false.
IsNaN(value) == value = "normal"
parseFloat(value) ==
    CASE value = "12px" -> 12
      [] value = "15px" -> 15
      [] value = "16px" -> 16
      [] value = "24px" -> 24
      [] value = "32px" -> 32
      [] OTHER -> 0

\* familyLower.includes('serif') && familyLower.includes('sans'), by
\* family: the generic name sans-serif holds both words.
includesSerifAndSans(fontFamily) == fontFamily = <<"Arial, sans-serif">>

\* The page: html > (head > script), (body > b, c), in document order.
TypoPageParts == <<"html", "head", "script", "body", "b", "c">>

TypoElem(tag, cls, id, family, size, weight, lineHeight, hidden) ==
    [tagName |-> tag, className |-> cls, id |-> id, fontFamily |-> family,
     fontSize |-> size, fontWeight |-> weight, lineHeight |-> lineHeight,
     offsetParentNull |-> hidden]

\* What the analyzer attaches: the notification of showNotification with
\* the style element it adds to the head, and the container of
\* createInteractiveTable; both divs are position: fixed.
TypoAttachedElem(kind) ==
    CASE kind = "note" ->
           TypoElem("DIV", "", "", <<"SF Mono">>, "14px", "400", "normal", TRUE)
      [] kind = "style" ->
           TypoElem("STYLE", "", "", <<"Arial">>, "16px", "400", "normal", TRUE)
      [] kind = "table" ->
           TypoElem("DIV", "", "typography-analyzer-results", <<"SF Mono">>,
                    "12px", "400", "normal", TRUE)

typoNode(a) == <<a.kind, a.inst, "container">>

\* document.querySelectorAll('*'): the head with what was appended to it,
\* then the body with what was appended to it.
typoElements(t) ==
    <<PageNode("html"), PageNode("head"), PageNode("script")>>
        \o [i \in 1..Len(SelectSeq(t.attached, LAMBDA a : a.kind = "style")) |->
               typoNode(SelectSeq(t.attached, LAMBDA a : a.kind = "style")[i])]
        \o <<PageNode("body"), PageNode("b"), PageNode("c")>>
        \o [i \in 1..Len(SelectSeq(t.attached, LAMBDA a : a.kind # "style")) |->
               typoNode(SelectSeq(t.attached, LAMBDA a : a.kind # "style")[i])]

typoStyle(t, n) ==
    IF n[1] = "page" THEN t.page[n[3]] ELSE TypoAttachedElem(n[1])

typoParent(n) ==
    CASE n[1] = "page" /\ n[3] = "html" -> NoNode
      [] n[1] = "page" /\ n[3] \in {"head", "body"} -> PageNode("html")
      [] n[1] = "page" /\ n[3] = "script" -> PageNode("head")
      [] n[1] = "page" /\ n[3] \in {"b", "c"} -> Body
      [] n[1] = "style" -> PageNode("head")
      [] OTHER -> Body

\* Mutant of fontKey: the font weight is left out of the key.
fontKeyWithoutWeight(metrics) ==
    metrics.fontFamily \o <<"|", metrics.fontSize, "|", metrics.lineHeight>>

\* The key of line 44.
fontKey(metrics) ==
    metrics.fontFamily
        \o <<"|", metrics.fontSize, "|", metrics.fontWeight, "|", metrics.lineHeight>>

fontMetrics(el, element) ==
    [fontFamily |-> el.fontFamily, fontSize |-> el.fontSize,
     fontWeight |-> el.fontWeight, lineHeight |-> el.lineHeight,
     element |-> element, tagName |-> el.tagName, className |-> el.className]

\* Lines 46-56: the entry of the key is created if missing, and the
\* element added to it.
fontMapAdd(fontMap, key, metrics, element) ==
    IF \E i \in 1..Len(fontMap) : fontMap[i].key = key
    THEN [i \in 1..Len(fontMap) |->
             IF fontMap[i].key = key
             THEN [fontMap[i] EXCEPT !.elements = Append(@, element),
                                     !.count = @ + 1]
             ELSE fontMap[i]]
    ELSE Append(fontMap, [key |-> key, metrics |-> metrics,
                          elements |-> <<element>>, count |-> 1])

\* Mutant of skipsElement: an element without a layout box is not skipped.
skipsNoElement(el) == FALSE

\* The early return of line 28.
skipsElement(el) == el.offsetParentNull /\ el.tagName # "HTML"

\* The body of the forEach of collectTypographyData for one element.
collectElement(fontMap, t, element) ==
    IF skipsElement(typoStyle(t, element))
    THEN fontMap
    ELSE fontMapAdd(fontMap, fontKey(fontMetrics(typoStyle(t, element), element)),
                    fontMetrics(typoStyle(t, element), element), element)

RECURSIVE collectLoop(_, _, _)
collectLoop(fontMap, t, elements) ==
    IF elements = <<>>
    THEN fontMap
    ELSE collectLoop(collectElement(fontMap, t, Head(elements)), t, Tail(elements))

\* The elements the selector of line 24 gives.
typoSelected(t) ==
    SelectSeq(typoElements(t),
              LAMBDA n : typoStyle(t, n).tagName \notin {"SCRIPT", "STYLE", "META", "LINK"})

collectTypographyData(t) ==
    [t EXCEPT !.fontMap = collectLoop(t.fontMap, t, typoSelected(t))]

\* generateSelector of src/code.js: "#id", or the tag with the classes and,
\* when document.querySelectorAll finds more than one such element, the
\* position among the siblings of the same tag and class.  The query
\* throws for a class name that does not make a valid selector.
typography_generateSelector(t, element) ==
    LET el == typoStyle(t, element)
        matching(n) ==
            /\ typoStyle(t, n).tagName = el.tagName
            /\ (el.className = "" \/ typoStyle(t, n).className = el.className)
        sibling(n) ==
            /\ typoParent(n) = typoParent(element)
            /\ typoStyle(t, n).tagName = el.tagName
            /\ typoStyle(t, n).className = el.className
    IN IF el.id # ""
       THEN [threw |-> FALSE, id |-> el.id, tag |-> "", cls |-> "", nth |-> 0]
       ELSE IF el.className \in RejectedClassNames
            THEN Threw
            ELSE [threw |-> FALSE, id |-> "", tag |-> el.tagName,
                  cls |-> el.className,
                  nth |-> IF /\ Len(SelectSeq(typoElements(t), matching)) > 1
                             /\ typoParent(element) # NoNode
                             /\ Len(SelectSeq(typoElements(t), sibling)) > 1
                          THEN IndexOf(SelectSeq(typoElements(t), sibling), element)
                          ELSE 0]

\* addIssue of src/code.js.
typography_addIssue(st, severity, type, elements) ==
    [st EXCEPT !.issues = Append(@,
        [severity |-> severity, type |-> type, elements |-> elements,
         count |-> Len(elements)])]

\* createFixableIssue of src/code.js: the selectors of the elements are
\* built first, and the issue is pushed if none of them threw.
typography_pushFixableIssue(st, type, severity, elements, selectors) ==
    [st EXCEPT !.fixableIssues = Append(@,
        [issueType |-> type, severity |-> severity,
         affectedElements |-> Len(elements), elements |-> elements,
         selectors |-> selectors])]

typography_createFixableIssue(st, t, type, severity, elements) ==
    IF \E i \in 1..Len(elements) : typography_generateSelector(t, elements[i]).threw
    THEN [st EXCEPT !.threw = TRUE]
    ELSE typography_pushFixableIssue(st, type, severity, elements,
             [i \in 1..Len(elements) |-> typography_generateSelector(t, elements[i])])

\* One rule of analyzeIssues: when its condition holds, addIssue and then
\* createFixableIssue; nothing once an exception is propagating.
typoRule(st, t, holds, severity, title, type, elements) ==
    IF st.threw \/ ~holds
    THEN st
    ELSE typography_createFixableIssue(
             typography_addIssue(st, severity, title, elements),
             t, type, severity, elements)

lineHeightTooSmall(m) ==
    /\ ~IsNaN(m.lineHeight)
    /\ 10 * parseFloat(m.lineHeight) < minLineHeightRatio * parseFloat(m.fontSize)

lineHeightTooLarge(m) ==
    /\ ~IsNaN(m.lineHeight)
    /\ 10 * parseFloat(m.lineHeight) > maxLineHeightRatio * parseFloat(m.fontSize)

\* Mutant of isRedundant: the count is compared with < instead of <=.
isRedundantBelow(count) == count < redundancyThreshold

\* The condition of line 202.
isRedundant(count) == count <= redundancyThreshold

\* The body of the forEach of analyzeIssues for one entry of fontMap: the
\* five rules in the order of the code.
analyzeEntry(st, t, data) ==
    typoRule(
      typoRule(
        typoRule(
          typoRule(
            typoRule(
              typoRule(st, t, lineHeightTooSmall(data.metrics), "critical",
                       "critical-line-height", "line-height-too-small", data.elements),
              t, ~lineHeightTooSmall(data.metrics) /\ lineHeightTooLarge(data.metrics),
              "warning", "excessive-line-height", "line-height-too-large", data.elements),
            t, data.metrics.fontWeight \in suspiciousWeights, "warning",
            "extreme-font-weight", "extreme-font-weight", data.elements),
          t, isRedundant(data.count), "info", "unique-combination",
          "redundant-style", data.elements),
        t, includesSerifAndSans(data.metrics.fontFamily), "warning",
        "mixed-families", "mixed-font-families", data.elements),
      t, /\ data.metrics.fontSize \notin commonFontSizes
         /\ parseFloat(data.metrics.fontSize) > 10,
      "info", "non-standard-size", "non-standard-size", data.elements)

RECURSIVE analyzeEntries(_, _, _)
analyzeEntries(st, t, entries) ==
    IF entries = <<>> \/ st.threw
    THEN st
    ELSE analyzeEntries(analyzeEntry(st, t, Head(entries)), t, Tail(entries))

\* analyzeIssues of src/code.js, from the lists of t.
typography_analyzeIssues(t) ==
    analyzeEntries([issues |-> t.issues, fixableIssues |-> t.fixableIssues,
                    threw |-> FALSE], t, t.fontMap)

\* cleanup of src/code.js: the container of the table is removed at once.
typography_cleanup(t) ==
    [t EXCEPT !.attached = SelectSeq(@, LAMBDA a : a.kind # "table")]

\* Lines 622-624 of run().
typography_reset(t) ==
    [t EXCEPT !.fontMap = <<>>, !.issues = <<>>, !.fixableIssues = <<>>]

\* The end of run(): collected is the analyzer after collectTypographyData,
\* st what analyzeIssues made of its lists.  An exception leaves run();
\* without issues the notification is shown, otherwise the table.
typography_finish(collected, st) ==
    [collected EXCEPT
        !.issues = st.issues,
        !.fixableIssues = st.fixableIssues,
        !.runs = @ + 1,
        !.lastRun = IF st.threw THEN "threw" ELSE "ok",
        !.nextId = IF st.threw THEN @ ELSE @ + 1,
        !.attached =
            IF st.threw THEN @
            ELSE IF st.issues = <<>>
            THEN @ \o <<[kind |-> "note", inst |-> collected.nextId],
                        [kind |-> "style", inst |-> collected.nextId]>>
            ELSE Append(@, [kind |-> "table", inst |-> collected.nextId])]

typography_analyze(collected) ==
    typography_finish(collected, typography_analyzeIssues(collected))

typography_run(t) ==
    typography_analyze(collectTypographyData(typography_cleanup(typography_reset(t))))

\* The computed font values of an element.
TypoFonts ==
    {<<family, size, weight, lineHeight>> :
        family \in {<<"Arial">>, <<"Arial, sans-serif">>, <<"A", "|", "16px">>},
        size \in {"16px", "15px"},
        weight \in {"400", "900"},
        lineHeight \in {"24px", "16px", "32px", "normal"}}

TypoFontsOfC ==
    {<<<<"Arial">>, "16px", "400", "24px">>,
     <<<<"Arial">>, "16px", "900", "24px">>,
     <<<<"Arial">>, "15px", "400", "24px">>,
     <<<<"Arial">>, "16px", "400", "16px">>,
     <<<<"Arial, sans-serif">>, "16px", "400", "24px">>,
     <<<<"A", "|", "16px">>, "16px", "400", "24px">>}

TypoPage(fb, fc, cls, hidden) ==
    [part \in {"html", "head", "script", "body", "b", "c"} |->
        CASE part = "html" ->
               TypoElem("HTML", "", "", <<"Arial">>, "16px", "400", "24px", TRUE)
          [] part = "head" ->
               TypoElem("HEAD", "", "", <<"Arial">>, "16px", "400", "24px", TRUE)
          [] part = "script" ->
               TypoElem("SCRIPT", "", "", <<"Arial">>, "16px", "400", "24px", TRUE)
          [] part = "body" ->
               TypoElem("BODY", "", "", <<"Arial">>, "16px", "400", "24px", TRUE)
          [] part = "b" ->
               TypoElem("DIV", "", "", fb[1], fb[2], fb[3], fb[4], FALSE)
          [] part = "c" ->
               TypoElem("DIV", cls, "", fc[1], fc[2], fc[3], fc[4], hidden)]

TypoPages ==
    {TypoPage(fb, fc, cls, hidden) :
        fb \in TypoFonts, fc \in TypoFontsOfC, cls \in {"", "md:flex"},
        hidden \in {FALSE, TRUE}}

TypoStart(page) ==
    [page |-> page, attached |-> <<>>, nextId |-> 1, fontMap |-> <<>>,
     issues |-> <<>>, fixableIssues |-> <<>>, runs |-> 0, lastRun |-> "none"]

InitTypography ==
    /\ op = Idle
    /\ AnalyzerIdle
    /\ adjust = Idle
    /\ pair = Idle
    /\ created = Idle
    /\ layout = Idle
    /\ \E page \in TypoPages : typo = TypoStart(page)

\* TYPOGRAPHY_ANALYZER.run()
TypoRun ==
    /\ typo.runs < MaxRuns
    /\ typo' = typography_run(typo)
    /\ UNCHANGED <<analyzerVars, callVars, layout>>

\* The timers of showNotification: the notification is detached.
TypoRemoveNote ==
    /\ \E a \in {typo.attached[i] : i \in 1..Len(typo.attached)} :
          /\ a.kind = "note"
          /\ typo' = [typo EXCEPT !.attached = SelectSeq(@, LAMBDA x : x # a)]
    /\ UNCHANGED <<analyzerVars, callVars, layout>>

NextTypography == TypoRun \/ TypoRemoveNote

SpecTypography == InitTypography /\ [][NextTypography]_vars

(***************************************************************************)
(* The issue synthesizer of the layout analyzer of                         *)
(* src/UI/UI.UX.Layout.Analyzer.js: the category table and the push of     *)
(* createFixableIssue.                                                     *)
(***************************************************************************)
getCategoryByType(type) ==
    CASE type \in {"missing-header", "missing-main", "missing-footer",
                   "semantic-div-replacement", "section-without-heading"} -> "semantic"
      [] type \in {"missing-flex-gap", "high-flex-shrink", "extreme-flex-grow",
                   "extreme-flex-order"} -> "flexbox"
      [] type \in {"deep-nesting", "first-heading-not-h1",
                   "heading-hierarchy-skip"} -> "structure"
      [] type \in {"fixed-without-z-index", "semantic-overflow-hidden"} -> "layout"
      [] type \in {"missing-alt-text", "button-without-label",
                   "link-without-text"} -> "accessibility"
      [] OTHER -> "other"

layout_pushFixableIssue(st, type, severity, elements, selectors) ==
    [st EXCEPT !.fixableIssues = Append(@,
        [issueType |-> type, severity |-> severity,
         affectedElements |-> Len(elements), elements |-> elements,
         selectors |-> selectors, category |-> getCategoryByType(type)])]

(***************************************************************************)
(* createFixableIssue of each of the three analyzers, called once with an  *)
(* issue type and a severity on empty lists.  created holds the call and   *)
(* the issue pushed.                                                       *)
(***************************************************************************)
\* The issue types the analyzers pass to createFixableIssue.
AccessibilityIssueTypes ==
    {"contrast-aa", "contrast-aaa", "focus-accessibility",
     "missing-accessible-name", "missing-required-state", "invalid-role",
     "aria-conflict", "touch-target-size", "readability-issues",
     "keyboard-navigation"}

LayoutIssueTypes ==
    {"missing-header", "missing-main", "missing-footer",
     "semantic-div-replacement", "section-without-heading",
     "missing-flex-gap", "high-flex-shrink", "extreme-flex-grow",
     "extreme-flex-order", "deep-nesting", "fixed-without-z-index",
     "semantic-overflow-hidden", "missing-alt-text", "button-without-label",
     "link-without-text", "first-heading-not-h1", "heading-hierarchy-skip"}

TypographyIssueTypes ==
    {"line-height-too-small", "line-height-too-large", "extreme-font-weight",
     "redundant-style", "mixed-font-families", "non-standard-size"}

IssueTypesOf(analyzer) ==
    CASE analyzer = "accessibility" -> AccessibilityIssueTypes
      [] analyzer = "layout" -> LayoutIssueTypes
      [] analyzer = "typography" -> TypographyIssueTypes

\* The lists of this.state of the typography and layout analyzers, empty.
EmptyLists == [issues |-> <<>>, fixableIssues |-> <<>>, threw |-> FALSE]

InitCategory ==
    /\ op = Idle
    /\ AnalyzerIdle
    /\ adjust = Idle
    /\ pair = Idle
    /\ typo = Idle
    /\ layout = Idle
    /\ \E analyzer \in {"accessibility", "layout", "typography"},
          severity \in {"critical", "warning", "info"} :
          \E type \in IssueTypesOf(analyzer) :
              created = [pc |-> "call", analyzer |-> analyzer, type |-> type,
                         severity |-> severity]

createdIssue(call, issue) ==
    [pc |-> "pushed", analyzer |-> call.analyzer, type |-> call.type,
     severity |-> call.severity, issue |-> issue]

\* createFixableIssue of the accessibility analyzer, for no element.
CreateAccessibilityIssue ==
    /\ created.pc = "call"
    /\ created.analyzer = "accessibility"
    /\ created' = createdIssue(created,
                      pushFixableIssue(EmptyState,
                          [threw |-> FALSE, id |-> "", tag |-> "", cls |-> "", nth |-> 0],
                          created.type, created.severity, NoNode, Null).fixableIssues[1])
    /\ UNCHANGED <<analyzerVars, toolVars, adjust, pair, op>>

\* createFixableIssue of the layout analyzer, for no element.
CreateLayoutIssue ==
    /\ created.pc = "call"
    /\ created.analyzer = "layout"
    /\ created' = createdIssue(created,
                      layout_pushFixableIssue(EmptyLists, created.type,
                          created.severity, <<>>, <<>>).fixableIssues[1])
    /\ UNCHANGED <<analyzerVars, toolVars, adjust, pair, op>>

\* createFixableIssue of the typography analyzer, for no element.
CreateTypographyIssue ==
    /\ created.pc = "call"
    /\ created.analyzer = "typography"
    /\ created' = createdIssue(created,
                      typography_pushFixableIssue(EmptyLists, created.type,
                          created.severity, <<>>, <<>>).fixableIssues[1])
    /\ UNCHANGED <<analyzerVars, toolVars, adjust, pair, op>>

NextCategory ==
    CreateAccessibilityIssue \/ CreateLayoutIssue \/ CreateTypographyIssue

SpecCategory == InitCategory /\ [][NextCategory]_vars

(***************************************************************************)
(* The layout analyzer of src/UI/UI.UX.Layout.Analyzer.js.  layout holds   *)
(* the page it is run on, what it has attached to it, its pending timers   *)
(* and its this.state: layoutMap, semanticStructure and flexboxElements    *)
(* as sequences in insertion order, issues, fixableIssues and              *)
(* pageStructure.                                                          *)
(*                                                                         *)
(* Scope.  The pages hold no image, link, button, fixed or deeply nested   *)
(* element, no overflow: hidden and no flex item with a flex-shrink,       *)
(* flex-grow or order other than the initial value, so the rules that      *)
(* read those add no issue for them; of the table the analyzer attaches,   *)
(* the container, its header and the two children of the header are held.  *)
(***************************************************************************)
semanticElements == {"header", "nav", "main", "section", "article", "aside", "footer"}

\* The page: html > body > top, (mid > k1, k2), bottom, in document order.
LayoutPageParts == <<"html", "body", "top", "mid", "k1", "k2", "bottom">>

LayoutTableParts == <<"container", "header", "span", "close">>

LayoutElem(tag, cls, id, display, gap, fixed, background) ==
    [tagName |-> tag, className |-> cls, id |-> id, display |-> display,
     gap |-> gap, position |-> IF fixed THEN "fixed" ELSE "static",
     inlineBackground |-> background,
     offsetParentNull |-> fixed \/ tag \in {"html", "body"}]

\* The notification of showNotification and the nodes of the table of
\* createInteractiveTable, with what their cssText and innerHTML give.
LayoutAttachedElem(kind, part) ==
    CASE kind = "note" ->
           LayoutElem("div", "", "", "block", "normal", TRUE, TRUE)
      [] kind = "table" /\ part = "container" ->
           LayoutElem("div", "", "ui-ux-analyzer-results", "block", "normal", TRUE, TRUE)
      [] kind = "table" /\ part = "header" ->
           LayoutElem("div", "", "", "flex", "normal", FALSE, TRUE)
      [] kind = "table" /\ part = "span" ->
           LayoutElem("span", "", "", "block", "normal", FALSE, FALSE)
      [] kind = "table" /\ part = "close" ->
           LayoutElem("button", "", "close-ui-analyzer", "block", "normal", FALSE, TRUE)

layoutSubtree(a) ==
    IF a.kind = "table"
    THEN [i \in 1..Len(LayoutTableParts) |-> <<"table", a.inst, LayoutTableParts[i]>>]
    ELSE << <<a.kind, a.inst, "container">> >>

RECURSIVE layoutFlatten(_)
layoutFlatten(as) ==
    IF as = <<>> THEN <<>> ELSE layoutSubtree(Head(as)) \o layoutFlatten(Tail(as))

\* document.querySelectorAll('*') without the head.
layoutElements(l) ==
    [i \in 1..Len(LayoutPageParts) |-> PageNode(LayoutPageParts[i])]
        \o layoutFlatten(l.attached)

layoutStyle(l, n) ==
    IF n[1] = "page" THEN l.page[n[3]] ELSE LayoutAttachedElem(n[1], n[3])

layoutParent(n) ==
    CASE n[1] = "page" /\ n[3] = "html" -> NoNode
      [] n[1] = "page" /\ n[3] = "body" -> PageNode("html")
      [] n[1] = "page" /\ n[3] \in {"top", "mid", "bottom"} -> Body
      [] n[1] = "page" /\ n[3] \in {"k1", "k2"} -> PageNode("mid")
      [] n[1] = "table" /\ n[3] = "header" -> <<"table", n[2], "container">>
      [] n[1] = "table" /\ n[3] \in {"span", "close"} -> <<"table", n[2], "header">>
      [] OTHER -> Body

\* Array.from(element.children)
layoutChildren(l, element) ==
    SelectSeq(layoutElements(l), LAMBDA m : layoutParent(m) = element)

headingTags == {"h1", "h2", "h3", "h4", "h5", "h6"}

\* parseInt(element.tagName.charAt(1)) of a heading.
headingLevel(tag) ==
    CASE tag = "h1" -> 1 [] tag = "h2" -> 2 [] tag = "h3" -> 3
      [] tag = "h4" -> 4 [] tag = "h5" -> 5 [] tag = "h6" -> 6

RECURSIVE getNestingLevel(_)
getNestingLevel(element) ==
    IF layoutParent(element) = NoNode \/ layoutParent(element) = Body
    THEN 0
    ELSE 1 + getNestingLevel(layoutParent(element))

\* Whether m is below element in the tree.
RECURSIVE isInside(_, _)
isInside(m, element) ==
    /\ layoutParent(m) # NoNode
    /\ layoutParent(m) = element \/ isInside(layoutParent(m), element)

hasProperHeading(l, element) ==
    \E i \in 1..Len(layoutElements(l)) :
        /\ layoutStyle(l, layoutElements(l)[i]).tagName \in headingTags
        /\ isInside(layoutElements(l)[i], element)

\* Map.set: the value of an existing key is replaced in place, a new key
\* is added at the end.
mapSet(map, element, value) ==
    IF \E i \in 1..Len(map) : map[i].element = element
    THEN [i \in 1..Len(map) |-> IF map[i].element = element THEN value ELSE map[i]]
    ELSE Append(map, value)

analyzeFlexContainer(l, element) ==
    IF layoutStyle(l, element).display \in {"flex", "inline-flex"}
    THEN [l EXCEPT !.flexboxElements =
             mapSet(@, element,
                    [element |-> element, gap |-> layoutStyle(l, element).gap,
                     children |-> layoutChildren(l, element), items |-> <<>>])]
    ELSE l

\* Lines 54-56 and analyzeFlexItem: the element is added to the items of
\* its parent when the parent is a flex container already collected.
analyzeFlexItem(l, element) ==
    IF /\ layoutParent(element) # NoNode
       /\ layoutStyle(l, layoutParent(element)).display \in {"flex", "inline-flex"}
    THEN [l EXCEPT !.flexboxElements =
             [i \in 1..Len(@) |->
                 IF @[i].element = layoutParent(element)
                 THEN [@[i] EXCEPT !.items =
                          IF \E j \in 1..Len(@) : @[j] = element THEN @ ELSE Append(@, element)]
                 ELSE @[i]]]
    ELSE l

analyzeSemantic(l, element) ==
    [l EXCEPT
        !.pageStructure.hasHeader = @ \/ layoutStyle(l, element).tagName = "header",
        !.pageStructure.hasNav = @ \/ layoutStyle(l, element).tagName = "nav",
        !.pageStructure.hasMain = @ \/ layoutStyle(l, element).tagName = "main",
        !.pageStructure.hasFooter = @ \/ layoutStyle(l, element).tagName = "footer",
        !.semanticStructure =
            IF layoutStyle(l, element).tagName \in semanticElements
            THEN Append(@, [element |-> element,
                            tagName |-> layoutStyle(l, element).tagName,
                            hasProperHeading |-> hasProperHeading(l, element)])
            ELSE @]

\* Lines 61-67: a heading is added to headingHierarchy.
collectHeading(l, element) ==
    IF layoutStyle(l, element).tagName \in headingTags
    THEN [l EXCEPT !.pageStructure.headingHierarchy =
             Append(@, [level |-> headingLevel(layoutStyle(l, element).tagName),
                        element |-> element])]
    ELSE l

\* The key of line 85.
layoutKey(el) == <<el.tagName, "|", el.display, "|", el.position>>

\* Lines 87-97: the entry of the key is created if missing, and the
\* element added to it.
layoutMapAdd(l, element, key) ==
    [l EXCEPT !.layoutMap =
        IF \E i \in 1..Len(@) : @[i].key = key
        THEN [i \in 1..Len(@) |->
                 IF @[i].key = key
                 THEN [@[i] EXCEPT !.elements = Append(@, element), !.count = @ + 1]
                 ELSE @[i]]
        ELSE Append(@, [key |-> key,
                        data |-> [element |-> element,
                                  nestingLevel |-> getNestingLevel(element)],
                        elements |-> <<element>>, count |-> 1])]

\* The body of the forEach of collectLayoutData for one element.
collectLayoutElement(l, element) ==
    IF layoutStyle(l, element).offsetParentNull /\ layoutStyle(l, element).tagName # "html"
    THEN l
    ELSE layoutMapAdd(
             collectHeading(
                 analyzeSemantic(
                     analyzeFlexItem(analyzeFlexContainer(l, element), element),
                     element),
                 element),
             element, layoutKey(layoutStyle(l, element)))

RECURSIVE collectLayoutLoop(_, _)
collectLayoutLoop(l, elements) ==
    IF elements = <<>>
    THEN l
    ELSE collectLayoutLoop(collectLayoutElement(l, Head(elements)), Tail(elements))

collectLayoutData(l) == collectLayoutLoop(l, layoutElements(l))

\* generateSelector of the layout analyzer, as that of src/code.js.
layout_generateSelector(l, element) ==
    LET el == layoutStyle(l, element)
        sibling(n) ==
            /\ layoutParent(n) = layoutParent(element)
            /\ layoutStyle(l, n).tagName = el.tagName
            /\ layoutStyle(l, n).className = el.className
        matching(n) ==
            /\ layoutStyle(l, n).tagName = el.tagName
            /\ (el.className = "" \/ layoutStyle(l, n).className = el.className)
    IN IF el.id # ""
       THEN [threw |-> FALSE, id |-> el.id, tag |-> "", cls |-> "", nth |-> 0]
       ELSE IF el.className \in RejectedClassNames
            THEN Threw
            ELSE [threw |-> FALSE, id |-> "", tag |-> el.tagName,
                  cls |-> el.className,
                  nth |-> IF /\ Len(SelectSeq(layoutElements(l), matching)) > 1
                             /\ layoutParent(element) # NoNode
                             /\ Len(SelectSeq(layoutElements(l), sibling)) > 1
                          THEN IndexOf(SelectSeq(layoutElements(l), sibling), element)
                          ELSE 0]

\* addIssue of the layout analyzer; nothing once an exception is propagating.
layout_addIssue(l, holds, severity, type, elements) ==
    IF l.threw \/ ~holds
    THEN l
    ELSE [l EXCEPT !.issues = Append(@,
             [severity |-> severity, type |-> type, elements |-> elements,
              count |-> Len(elements)])]

layout_createFixableIssue(l, type, severity, elements) ==
    IF \E i \in 1..Len(elements) : layout_generateSelector(l, elements[i]).threw
    THEN [l EXCEPT !.threw = TRUE]
    ELSE layout_pushFixableIssue(l, type, severity, elements,
             [i \in 1..Len(elements) |-> layout_generateSelector(l, elements[i])])

\* One rule of the analysis: when its condition holds, addIssue and then
\* createFixableIssue; nothing once an exception is propagating.
layoutRule(l, holds, severity, title, type, elements) ==
    IF l.threw \/ ~holds
    THEN l
    ELSE layout_createFixableIssue(layout_addIssue(l, TRUE, severity, title, elements),
                                   type, severity, elements)

\* Lines 190-221.
missingLandmarks(l) ==
    layoutRule(
        layoutRule(
            layoutRule(l, ~l.pageStructure.hasHeader, "warning", "no header",
                       "missing-header", <<>>),
            ~l.pageStructure.hasMain, "critical", "no main", "missing-main", <<>>),
        ~l.pageStructure.hasFooter, "warning", "no footer", "missing-footer", <<>>)

\* Lines 242-253, for the entries of semanticStructure from the i-th on.
RECURSIVE sectionsWithoutHeading(_, _)
sectionsWithoutHeading(l, i) ==
    IF i > Len(l.semanticStructure)
    THEN l
    ELSE sectionsWithoutHeading(
             layoutRule(l,
                 /\ l.semanticStructure[i].tagName \in {"section", "article", "aside"}
                 /\ ~l.semanticStructure[i].hasProperHeading,
                 "warning", "section without heading", "section-without-heading",
                 <<l.semanticStructure[i].element>>),
             i + 1)

\* No div of the pages or of what the analyzer attaches has a class or an
\* id containing header, nav, footer, main or sidebar: lines 224-239 add
\* nothing.
analyzeSemanticIssues(l) == sectionsWithoutHeading(missingLandmarks(l), 1)

\* Lines 273-284, for the entries of flexboxElements from the i-th on.
RECURSIVE analyzeFlexboxFrom(_, _)
analyzeFlexboxFrom(l, i) ==
    IF i > Len(l.flexboxElements)
    THEN l
    ELSE analyzeFlexboxFrom(
             layoutRule(l,
                 /\ Len(l.flexboxElements[i].children) > 1
                 /\ l.flexboxElements[i].gap \in {"", "0px"},
                 "info", "no gap", "missing-flex-gap",
                 <<l.flexboxElements[i].element>>),
             i + 1)

analyzeFlexboxIssues(l) == analyzeFlexboxFrom(l, 1)

\* document.querySelectorAll('[style*="background"], [class*="bg-"]')
elementsWithBackground(l) ==
    SelectSeq(layoutElements(l), LAMBDA n : layoutStyle(l, n).inlineBackground)

\* Lines 453-458.
analyzeAccessibilityIssues(l) ==
    layout_addIssue(l, elementsWithBackground(l) # <<>>, "info", "check contrast",
                    elementsWithBackground(l))

\* Lines 484-498, for the headings from the i-th on.
RECURSIVE headingSkipsFrom(_, _)
headingSkipsFrom(l, i) ==
    IF i > Len(l.pageStructure.headingHierarchy)
    THEN l
    ELSE headingSkipsFrom(
             layoutRule(l,
                 l.pageStructure.headingHierarchy[i].level
                     > l.pageStructure.headingHierarchy[i - 1].level + 1,
                 "warning", "hierarchy skip", "heading-hierarchy-skip",
                 <<l.pageStructure.headingHierarchy[i].element>>),
             i + 1)

\* The elements of the headings of level 1.
h1Elements(headingHierarchy) ==
    [i \in 1..Len(SelectSeq(headingHierarchy, LAMBDA h : h.level = 1)) |->
        SelectSeq(headingHierarchy, LAMBDA h : h.level = 1)[i].element]

analyzeHeadingHierarchy(l) ==
    IF l.pageStructure.headingHierarchy = <<>>
    THEN layout_addIssue(l, TRUE, "warning", "no headings", <<>>)
    ELSE layout_addIssue(
             headingSkipsFrom(
                 layoutRule(l, l.pageStructure.headingHierarchy[1].level # 1,
                            "warning", "first heading not h1", "first-heading-not-h1",
                            <<l.pageStructure.headingHierarchy[1].element>>),
                 2),
             Len(h1Elements(l.pageStructure.headingHierarchy)) > 1,
             "warning", "multiple h1", h1Elements(l.pageStructure.headingHierarchy))

\* analyzeIssues; analyzeLayoutIssues adds nothing for the pages held.
layout_analyzeIssues(l) ==
    analyzeHeadingHierarchy(
        analyzeAccessibilityIssues(analyzeFlexboxIssues(analyzeSemanticIssues(l))))

\* A timer may fire when no timer set earlier with at most its delay, and
\* none set no later with a smaller delay, is pending.
canFireAmong(ts, t) ==
    \A u \in ts \ {t} :
        ~(u.seq <= t.seq /\ u.delay <= t.delay /\ (u.seq < t.seq \/ u.delay < t.delay))

\* showNotification: the node appended and its removal, 400 ms after the
\* 3500 ms timer that fades it out.
layout_showNotification(l) ==
    [l EXCEPT
        !.attached = Append(@, [kind |-> "note", inst |-> l.nextId]),
        !.timers = @ \cup {[kind |-> "removeNote", inst |-> l.nextId,
                            delay |-> 3900, seq |-> l.clock]},
        !.nextId = @ + 1]

EmptyPageStructure ==
    [hasHeader |-> FALSE, hasNav |-> FALSE, hasMain |-> FALSE, hasFooter |-> FALSE,
     headingHierarchy |-> <<>>]

\* Mutant of layout_reset: nothing is cleared.
layout_resetNothing(l) == l

\* Lines 1721-1734 of run().
layout_reset(l) ==
    [l EXCEPT
        !.layoutMap = <<>>, !.semanticStructure = <<>>, !.flexboxElements = <<>>,
        !.issues = <<>>, !.fixableIssues = <<>>,
        !.pageStructure = EmptyPageStructure]

\* cleanup(): the removal of the first attached table, 300 ms later.
layout_cleanup(l) ==
    [l EXCEPT !.timers = @ \cup
        {[kind |-> "removeTable", inst |-> a.inst, delay |-> 300, seq |-> l.clock] :
            a \in {b \in {l.attached[i] : i \in 1..Len(l.attached)} :
                     /\ b.kind = "table"
                     /\ \A i \in 1..Len(l.attached) :
                            l.attached[i].kind = "table" => l.attached[i].inst >= b.inst}}]

\* The try block of run() up to the first exception.
layout_try(l) == layout_analyzeIssues(collectLayoutData([l EXCEPT !.threw = FALSE]))

\* The end of run(): the interface is deferred by 500 ms, or the catch
\* block shows the error notification.
layout_finish(l) ==
    IF l.threw
    THEN [layout_showNotification(l) EXCEPT
             !.runs = @ + 1, !.clock = @ + 1, !.lastRun = "error"]
    ELSE [l EXCEPT
             !.timers = @ \cup {[kind |-> "interface", inst |-> 0, delay |-> 500,
                                 seq |-> l.clock]},
             !.runs = @ + 1, !.clock = @ + 1, !.lastRun = "ok"]

layout_run(l) ==
    layout_finish(layout_try(layout_cleanup(layout_reset(layout_showNotification(l)))))

\* The callback run() defers: the notification alone without issues, the
\* table and then the notification otherwise.
layout_interface(l) ==
    IF l.issues = <<>>
    THEN layout_showNotification(l)
    ELSE layout_showNotification(
             [l EXCEPT !.attached = Append(@, [kind |-> "table", inst |-> l.nextId]),
                       !.nextId = @ + 1])

\* The pages the layout analyzer is run on.
LayoutPage(top, mid, display, gap, cls, k1, k2, bottom) ==
    [html |-> LayoutElem("html", "", "", "block", "normal", FALSE, FALSE),
     body |-> LayoutElem("body", "", "", "block", "normal", FALSE, FALSE),
     top |-> LayoutElem(top, "", "", "block", "normal", FALSE, FALSE),
     mid |-> LayoutElem(mid, cls, "", display, gap, FALSE, FALSE),
     k1 |-> LayoutElem(k1, "", "", "block", "normal", FALSE, FALSE),
     k2 |-> LayoutElem(k2, "", "", "block", "normal", FALSE, FALSE),
     bottom |-> LayoutElem(bottom, "", "", "block", "normal", FALSE, FALSE)]

LayoutPages ==
    {LayoutPage(top, mid, dg[1], dg[2], cls, k1, k2, bottom) :
        top \in {"header", "h2", "div"},
        mid \in {"main", "section", "div"},
        dg \in {<<"block", "normal">>, <<"flex", "0px">>, <<"flex", "normal">>},
        cls \in {"", "md:flex"},
        k1 \in {"h1", "h3", "div"},
        k2 \in {"h1", "h3", "div"},
        bottom \in {"footer", "div"}}

\* The analyzer as the script has defined it, before run().
LayoutStart(page) ==
    [pc |-> "loaded", page |-> page, attached |-> <<>>, timers |-> {}, clock |-> 0,
     nextId |-> 1, runs |-> 0, lastRun |-> "none", threw |-> FALSE,
     layoutMap |-> <<>>, semanticStructure |-> <<>>, flexboxElements |-> <<>>,
     issues |-> <<>>, fixableIssues |-> <<>>, pageStructure |-> EmptyPageStructure]

InitLayout ==
    /\ op = Idle
    /\ AnalyzerIdle
    /\ adjust = Idle
    /\ pair = Idle
    /\ created = Idle
    /\ typo = Idle
    /\ layout \in {LayoutStart(page) : page \in LayoutPages}

LayoutRun ==
    /\ layout.runs < MaxRuns
    /\ layout' = layout_run(layout)
    /\ UNCHANGED <<analyzerVars, callVars, typo>>

LayoutFireInterface ==
    \E t \in layout.timers :
        /\ t.kind = "interface"
        /\ canFireAmong(layout.timers, t)
        /\ layout' = [layout_interface([layout EXCEPT !.timers = @ \ {t}])
                         EXCEPT !.clock = @ + 1]
        /\ UNCHANGED <<analyzerVars, callVars, typo>>

\* The callback of cleanup(): the container is detached if still attached.
LayoutFireRemoveTable ==
    \E t \in layout.timers :
        /\ t.kind = "removeTable"
        /\ canFireAmong(layout.timers, t)
        /\ layout' = [layout EXCEPT
              !.timers = @ \ {t},
              !.attached = SelectSeq(@, LAMBDA a : ~(a.kind = "table" /\ a.inst = t.inst))]
        /\ UNCHANGED <<analyzerVars, callVars, typo>>

\* The callback of showNotification.
LayoutFireRemoveNote ==
    \E t \in layout.timers :
        /\ t.kind = "removeNote"
        /\ canFireAmong(layout.timers, t)
        /\ layout' = [layout EXCEPT
              !.timers = @ \ {t},
              !.attached = SelectSeq(@, LAMBDA a : ~(a.kind = "note" /\ a.inst = t.inst))]
        /\ UNCHANGED <<analyzerVars, callVars, typo>>

NextLayout ==
    LayoutRun \/ LayoutFireInterface \/ LayoutFireRemoveTable \/ LayoutFireRemoveNote

SpecLayout == InitLayout /\ [][NextLayout]_vars

(***************************************************************************)
(* The three analyzers together: each behaviour loads one of them on one   *)
(* of its pages and runs it, the other two being idle.                     *)
(***************************************************************************)
InitSuite == Init \/ InitTypography \/ InitLayout

NextSuite ==
    \/ (typo = Idle /\ layout = Idle) /\ Run
    \/ FireInterface
    \/ FireRemovePanel
    \/ FireRemoveNote
    \/ typo # Idle /\ TypoRun
    \/ typo # Idle /\ TypoRemoveNote
    \/ layout # Idle /\ LayoutRun
    \/ layout # Idle /\ LayoutFireInterface
    \/ layout # Idle /\ LayoutFireRemoveTable
    \/ layout # Idle /\ LayoutFireRemoveNote

SpecSuite == InitSuite /\ [][NextSuite]_vars

(***************************************************************************)
(* analyzeColorContrast followed call by call: op holds the page, the      *)
(* elements the forEach has still to visit, the strings the body of the    *)
(* current element has still to hand to parseColor, the children the pass  *)
(* has appended to document.body and not removed, the color cache, and     *)
(* this.state as the elements visited so far have left it.                 *)
(***************************************************************************)
\* The strings getEffectiveBackgroundColor hands to parseColor, in order.
RECURSIVE backgroundCalls(_, _)
backgroundCalls(d, element) ==
    IF element = NoNode \/ element = Body
    THEN <<>>
    ELSE IF /\ parseColor(Style(d, element).backgroundColor) # Null
            /\ parseColor(Style(d, element).backgroundColor).a = 100
         THEN <<Style(d, element).backgroundColor>>
         ELSE <<Style(d, element).backgroundColor>>
                  \o backgroundCalls(d, parentElement(element))

\* The calls of parseColor the body of the forEach makes for one element.
parseCalls(d, element) ==
    IF \/ ~Style(d, element).hasText
       \/ Style(d, element).tagName \in {"SCRIPT", "STYLE", "META", "LINK", "HEAD"}
       \/ Style(d, element).offsetParentNull /\ Style(d, element).tagName # "HTML"
    THEN <<>>
    ELSE <<Style(d, element).color>> \o backgroundCalls(d, element)

\* The temporary element of parseColor.
TempDiv == [kind |-> "div", color |-> "colorString"]

\* Mutant of removeChild: the node stays attached.
removeChildNot(children, node) == children

\* document.body.removeChild(div)
removeChild(children, node) == SelectSeq(children, LAMBDA c : c # node)

\* Every colour string of a page.
pageStrings(d) ==
    {d[PageParts[i]].color : i \in 1..Len(PageParts)}
        \cup {d[PageParts[i]].backgroundColor : i \in 1..Len(PageParts)}

ContrastCall(d, cache) ==
    [pc |-> "contrast", d |-> d, elements |-> AllElements(d, <<>>),
     current |-> NoNode, calls |-> <<>>, body |-> <<>>, cache |-> cache,
     st |-> [EmptyState EXCEPT !.colorCache = cache],
     hits |-> FALSE, misses |-> FALSE]

\* The pass is called on a page with the cache empty, as run() leaves it,
\* or holding every colour of the page, as an earlier pass leaves it.
InitContrastSteps ==
    /\ AnalyzerIdle
    /\ adjust = Idle
    /\ pair = Idle
    /\ created = Idle
    /\ typo = Idle
    /\ layout = Idle
    /\ \E d \in Documents, warm \in BOOLEAN :
          op = ContrastCall(d, IF warm THEN pageStrings(d) ELSE {})

\* The forEach takes the next element.
ContrastEnter ==
    /\ op.pc = "contrast"
    /\ op.elements # <<>>
    /\ op' = [op EXCEPT !.pc = "calls", !.current = Head(op.elements),
                        !.elements = Tail(op.elements),
                        !.calls = parseCalls(op.d, Head(op.elements))]
    /\ UNCHANGED <<analyzerVars, adjust, pair, created, toolVars>>

\* parseColor finds the string in the cache and returns.
ParseHit ==
    /\ op.pc = "calls"
    /\ op.calls # <<>>
    /\ Head(op.calls) \in op.cache
    /\ op' = [op EXCEPT !.calls = Tail(@), !.hits = TRUE]
    /\ UNCHANGED <<analyzerVars, adjust, pair, created, toolVars>>

\* parseColor creates the div and appends it to the body.
ParseAttach ==
    /\ op.pc = "calls"
    /\ op.calls # <<>>
    /\ Head(op.calls) \notin op.cache
    /\ op' = [op EXCEPT !.pc = "parsing", !.body = Append(@, TempDiv)]
    /\ UNCHANGED <<analyzerVars, adjust, pair, created, toolVars>>

\* parseColor reads the computed colour, removes the div, stores the
\* result and returns.
ParseDetach ==
    /\ op.pc = "parsing"
    /\ op' = [op EXCEPT !.pc = "calls", !.body = removeChild(@, TempDiv),
                        !.cache = @ \cup {Head(op.calls)},
                        !.calls = Tail(@), !.misses = TRUE]
    /\ UNCHANGED <<analyzerVars, adjust, pair, created, toolVars>>

\* The rest of the body of the forEach, with the two colours parsed; an
\* exception of addContrastIssue ends the pass.
ContrastVerdict ==
    /\ op.pc = "calls"
    /\ op.calls = <<>>
    /\ op' = [op EXCEPT
                 !.st = contrastElement(@, op.d, <<>>, op.current),
                 !.pc = IF contrastElement(op.st, op.d, <<>>, op.current).threw
                        THEN "threw" ELSE "contrast"]
    /\ UNCHANGED <<analyzerVars, adjust, pair, created, toolVars>>

ContrastReturn ==
    /\ op.pc = "contrast"
    /\ op.elements = <<>>
    /\ op' = [op EXCEPT !.pc = "returned"]
    /\ UNCHANGED <<analyzerVars, adjust, pair, created, toolVars>>

NextContrastSteps ==
    \/ ContrastEnter \/ ParseHit \/ ParseAttach \/ ParseDetach
    \/ ContrastVerdict \/ ContrastReturn

SpecContrastSteps == InitContrastSteps /\ [][NextContrastSteps]_vars

(***************************************************************************)
(* The highlight overlays of the accessibility analyzer.  op holds the     *)
(* overlays attached to the body, state.highlightedElements, the number    *)
(* of results panels attached, the pending timers and the number of run()  *)
(* calls.  The page is taken to have an issue, so that each run() defers   *)
(* the creation of a panel whose rows can be clicked; an overlay is known  *)
(* by the number of its creation.  The timers that only restyle an         *)
(* overlay, the notifications and the pulse style element are left out.    *)
(***************************************************************************)
\* The clicks on the rows and buttons of the panel that are followed.
MaxClicks == 3

HighlightStart ==
    [pc |-> "highlights", overlays |-> {}, highlightedElements |-> {}, panels |-> 0,
     timers |-> {}, clock |-> 0, nextId |-> 1, runs |-> 0, clicks |-> 0]

InitHighlights ==
    /\ AnalyzerIdle
    /\ adjust = Idle
    /\ pair = Idle
    /\ created = Idle
    /\ typo = Idle
    /\ layout = Idle
    /\ op = HighlightStart

\* clearHighlights: the removal of every overlay of highlightedElements is
\* deferred by 300 ms, and the set is cleared.
clearHighlights(o) ==
    [o EXCEPT
        !.timers = @ \cup {[kind |-> "removeOverlay", inst |-> h, delay |-> 300,
                            seq |-> o.clock] : h \in o.highlightedElements},
        !.highlightedElements = {}]

\* cleanup(): clearHighlights, and the removal of the container found.
highlights_cleanup(o) ==
    [clearHighlights(o) EXCEPT
        !.timers = @ \cup (IF o.panels > 0
                           THEN {[kind |-> "removePanel", inst |-> 0, delay |-> 300,
                                  seq |-> o.clock]}
                           ELSE {})]

\* run(): this.state is replaced by a new object with an empty
\* highlightedElements, cleanup() is called, and the interface deferred.
highlights_run(o) ==
    [highlights_cleanup([o EXCEPT !.highlightedElements = {}]) EXCEPT
        !.timers = @ \cup {[kind |-> "interface", inst |-> 0, delay |-> 1000,
                            seq |-> o.clock]},
        !.runs = @ + 1, !.clock = @ + 1]

\* highlightAccessibilityElements for n elements found: clearHighlights,
\* then an overlay appended to the body and added to the set for each.
highlightAccessibilityElements(o, n) ==
    [clearHighlights(o) EXCEPT
        !.overlays = @ \cup (o.nextId .. o.nextId + n - 1),
        !.highlightedElements = o.nextId .. o.nextId + n - 1,
        !.nextId = @ + n, !.clock = @ + 1]

HighlightRun ==
    /\ op.runs < MaxRuns
    /\ op' = highlights_run(op)
    /\ UNCHANGED <<analyzerVars, adjust, pair, created, toolVars>>

\* A click on the row of an issue, whose selector finds its element or not.
HighlightClick ==
    /\ op.panels > 0
    /\ op.clicks < MaxClicks
    /\ \E n \in 0..1 :
          op' = [highlightAccessibilityElements(op, n) EXCEPT !.clicks = @ + 1]
    /\ UNCHANGED <<analyzerVars, adjust, pair, created, toolVars>>

\* A click on the clear-highlights button.
HighlightClear ==
    /\ op.panels > 0
    /\ op.clicks < MaxClicks
    /\ op' = [clearHighlights(op) EXCEPT !.clock = @ + 1, !.clicks = @ + 1]
    /\ UNCHANGED <<analyzerVars, adjust, pair, created, toolVars>>

\* A click on the close button.
HighlightClose ==
    /\ op.panels > 0
    /\ op.clicks < MaxClicks
    /\ op' = [highlights_cleanup(op) EXCEPT !.clock = @ + 1, !.clicks = @ + 1]
    /\ UNCHANGED <<analyzerVars, adjust, pair, created, toolVars>>

HighlightFireInterface ==
    \E t \in op.timers :
        /\ t.kind = "interface"
        /\ canFireAmong(op.timers, t)
        /\ op' = [op EXCEPT !.timers = @ \ {t}, !.panels = @ + 1]
        /\ UNCHANGED <<analyzerVars, adjust, pair, created, toolVars>>

HighlightFireRemovePanel ==
    \E t \in op.timers :
        /\ t.kind = "removePanel"
        /\ canFireAmong(op.timers, t)
        /\ op' = [op EXCEPT !.timers = @ \ {t},
                            !.panels = IF @ > 0 THEN @ - 1 ELSE @]
        /\ UNCHANGED <<analyzerVars, adjust, pair, created, toolVars>>

\* The callback of clearHighlights: the overlay is detached if attached.
HighlightFireRemoveOverlay ==
    \E t \in op.timers :
        /\ t.kind = "removeOverlay"
        /\ canFireAmong(op.timers, t)
        /\ op' = [op EXCEPT !.timers = @ \ {t}, !.overlays = @ \ {t.inst}]
        /\ UNCHANGED <<analyzerVars, adjust, pair, created, toolVars>>

NextHighlights ==
    \/ HighlightRun \/ HighlightClear \/ HighlightClose \/ HighlightClick
    \/ HighlightFireInterface \/ HighlightFireRemovePanel
    \/ HighlightFireRemoveOverlay

SpecHighlights == InitHighlights /\ [][NextHighlights]_vars

(***************************************************************************)
(* Rendering and export.  op holds state.fixableIssues of the              *)
(* accessibility analyzer (fixableIssues), state.fixableIssues of the      *)
(* typography analyzer of src/find_troubles.js (typographyIssues) and the  *)
(* operation called last.  An issue is held by its type, severity and      *)
(* category; Array.prototype.sort is stable and sorts in place, filter     *)
(* returns a new array.                                                    *)
(***************************************************************************)
canAutomate(type) ==
    type \in {"contrast-aa", "contrast-aaa", "missing-accessible-name",
              "touch-target-size", "focus-accessibility"}

\* The issue createFixableIssue pushes for a type and a severity.
fixableIssueOf(type, severity) ==
    [issueType |-> type, severity |-> severity,
     category |-> getAccessibilityCategory(type),
     automationPossible |-> canAutomate(type)]

\* severityOrder of renderIssues.
severityOrder(issue) ==
    CASE issue.severity = "critical" -> 0
      [] issue.severity = "warning" -> 1
      [] issue.severity = "info" -> 2

\* getSeverityPriority of src/find_troubles.js.
getSeverityPriority(issue) ==
    CASE issue.severity = "critical" -> 1
      [] issue.severity = "warning" -> 2
      [] issue.severity = "info" -> 3
      [] OTHER -> 4

\* getAccessibilityPriority, in tenths.
getAccessibilityPriority(issue) ==
    (CASE issue.severity = "critical" -> 10
       [] issue.severity = "warning" -> 20
       [] issue.severity = "info" -> 30)
    + (CASE issue.category = "semantic" -> 1
         [] issue.category = "keyboard" -> 2
         [] issue.category = "visual" -> 3
         [] issue.category = "motor" -> 4
         [] OTHER -> 5)

\* The place a stable sort by key gives the i-th element of seq.
sortedPlace(seq, key(_), i) ==
    1 + Cardinality({j \in 1..Len(seq) :
                        \/ key(seq[j]) < key(seq[i])
                        \/ key(seq[j]) = key(seq[i]) /\ j < i})

\* array.sort((a, b) => key(a) - key(b))
sort(seq, key(_)) ==
    [r \in 1..Len(seq) |-> seq[CHOOSE i \in 1..Len(seq) : sortedPlace(seq, key, i) = r]]

\* renderIssues: the filters give a new array, every other filter type the
\* array of the state itself, which is sorted when it is not empty.
renderIssues(issues, filterType) ==
    IF filterType \in {"critical", "visual", "keyboard", "semantic", "wcag-aa", "wcag-aaa"}
    THEN issues
    ELSE sort(issues, severityOrder)

copyAccessibilityFixes(issues, filterType) ==
    IF filterType \in {"critical", "automated"}
    THEN issues
    ELSE sort(issues, getAccessibilityPriority)

copyDeveloperGuide(issues) == sort(issues, getAccessibilityPriority)

\* copyFixesToClipboard of src/find_troubles.js.
copyFixesToClipboard(issues, filterType) ==
    IF filterType \in {"critical", "non-critical"}
    THEN issues
    ELSE sort(issues, getSeverityPriority)

\* The issues of the contrast pass and of the ARIA pass, which run() calls
\* in this order.
ContrastIssueKinds ==
    {fixableIssueOf("contrast-aa", "critical"), fixableIssueOf("contrast-aaa", "warning")}

AriaIssueKinds ==
    {fixableIssueOf("missing-accessible-name", "critical"),
     fixableIssueOf("invalid-role", "warning")}

TypographyIssueKinds ==
    {[issueType |-> "line-height-too-small", severity |-> "critical"],
     [issueType |-> "extreme-font-weight", severity |-> "warning"],
     [issueType |-> "redundant-style", severity |-> "info"]}

\* The issues held per list.
MaxIssues == 2

ListsOf(kinds) == UNION {[1..n -> kinds] : n \in 0..MaxIssues}

ExportStart(issues, typographyIssues) ==
    [pc |-> "export", fixableIssues |-> issues, typographyIssues |-> typographyIssues,
     last |-> "none", calls |-> 0]

InitExport ==
    /\ AnalyzerIdle
    /\ adjust = Idle
    /\ pair = Idle
    /\ created = Idle
    /\ typo = Idle
    /\ layout = Idle
    /\ \E c \in ListsOf(ContrastIssueKinds), a \in ListsOf(AriaIssueKinds),
          t \in ListsOf(TypographyIssueKinds) :
          op = ExportStart(c \o a, t)

\* The calls followed per behaviour.
MaxCalls == 2

RenderIssues ==
    /\ op.calls < MaxCalls
    /\ \E filterType \in {"all", "critical", "visual", "keyboard", "semantic",
                          "wcag-aa", "wcag-aaa"} :
          op' = [op EXCEPT !.fixableIssues = renderIssues(@, filterType),
                           !.last = "renderIssues", !.calls = @ + 1]
    /\ UNCHANGED <<analyzerVars, adjust, pair, created, toolVars>>

CopyAccessibilityFixes ==
    /\ op.calls < MaxCalls
    /\ \E filterType \in {"all", "critical", "automated"} :
          op' = [op EXCEPT !.fixableIssues = copyAccessibilityFixes(@, filterType),
                           !.last = "copyAccessibilityFixes", !.calls = @ + 1]
    /\ UNCHANGED <<analyzerVars, adjust, pair, created, toolVars>>

CopyDeveloperGuide ==
    /\ op.calls < MaxCalls
    /\ op' = [op EXCEPT !.fixableIssues = copyDeveloperGuide(@),
                        !.last = "copyDeveloperGuide", !.calls = @ + 1]
    /\ UNCHANGED <<analyzerVars, adjust, pair, created, toolVars>>

CopyFixesToClipboard ==
    /\ op.calls < MaxCalls
    /\ \E filterType \in {"all", "critical", "non-critical"} :
          op' = [op EXCEPT !.typographyIssues = copyFixesToClipboard(@, filterType),
                           !.last = "copyFixesToClipboard", !.calls = @ + 1]
    /\ UNCHANGED <<analyzerVars, adjust, pair, created, toolVars>>

NextExport ==
    RenderIssues \/ CopyAccessibilityFixes \/ CopyDeveloperGuide \/ CopyFixesToClipboard

SpecExport == InitExport /\ [][NextExport]_vars

(***************************************************************************)
(* calculateWCAGScore, called on a state.fixableIssues holding issues of   *)
(* the types of op.types (the score reads the wcagCriteria of the issues,  *)
(* which createFixableIssue sets from the type).                           *)
(***************************************************************************)
\* The names of getAllWCAGCriteria.
getAllWCAGCriteria ==
    <<"1.4.3 Contrast (Minimum)", "1.4.6 Contrast (Enhanced)", "2.4.7 Focus Visible",
      "4.1.2 Name, Role, Value", "2.5.5 Target Size", "3.1.5 Reading Level">>

\* Math.round of num / den for den > 0: the nearest integer, halves up.
MathRound(num, den) == (2 * num + den) \div (2 * den)

calculateWCAGScore(types) ==
    MathRound((Len(getAllWCAGCriteria) - Cardinality({getWCAGCriteria(t) : t \in types}))
                  * 100,
              Len(getAllWCAGCriteria))

InitScore ==
    /\ AnalyzerIdle
    /\ adjust = Idle
    /\ pair = Idle
    /\ created = Idle
    /\ typo = Idle
    /\ layout = Idle
    /\ \E types \in SUBSET AccessibilityIssueTypes :
          op = [pc |-> "score", types |-> types, score |-> <<>>]

CalculateWCAGScore ==
    /\ op.pc = "score"
    /\ op.score = <<>>
    /\ op' = [op EXCEPT !.score = <<calculateWCAGScore(op.types)>>]
    /\ UNCHANGED <<analyzerVars, adjust, pair, created, toolVars>>

NextScore == CalculateWCAGScore

SpecScore == InitScore /\ [][NextScore]_vars

(***************************************************************************)
(* The "re-check contrast" button of the results panel                     *)
(* (setupEventListeners, rerunContrastCheck).  The page is live: between   *)
(* an audit and a re-check its author may restyle an element (EditPage     *)
(* changes the class and the colour of e3).  op counts the clicks, the     *)
(* re-checks among them and the edits, and keeps the list the last         *)
(* re-check found (before) and whether that re-check left with an          *)
(* exception (threw): the handler has no try block.                        *)
(***************************************************************************)
\* run() is invoked at most MaxAudits times, the buttons of the panel are
\* clicked at most MaxPanelClicks times and the page is edited at most
\* MaxEdits times in a behaviour.
MaxAudits == 1
MaxPanelClicks == 2
MaxEdits == 1

\* issue.issueType.includes('contrast'), over the issue types the
\* analyzer creates.
includesContrast(issueType) == issueType \in {"contrast-aa", "contrast-aaa"}

\* Mutant of rerunContrastCheck: the lists are not emptied first.
rerunContrastCheckKeeping(st, d, as) ==
    analyzeColorContrast(st, d, as)

\* rerunContrastCheck up to the return of analyzeColorContrast.
rerunContrastCheck(st, d, as) ==
    analyzeColorContrast(
        [st EXCEPT !.contrastIssues = <<>>,
                   !.fixableIssues =
                       SelectSeq(@, LAMBDA issue : ~includesContrast(issue.issueType))],
        d, as)

\* The rest of rerunContrastCheck: renderIssues(container, 'visual') works
\* on a filtered copy and leaves this.state alone, and the closing
\* notification is shown unless the analysis threw.
recheckOutcome(as, st) ==
    /\ fixableIssues' = st.fixableIssues
    /\ contrastIssues' = st.contrastIssues
    /\ colorCache' = st.colorCache
    /\ appended' = IF st.threw THEN as ELSE Append(as, Note(nextId + 1))
    /\ timers' = timers \cup {NoteTimer(nextId, clock)}
                   \cup (IF st.threw THEN {} ELSE {NoteTimer(nextId + 1, clock)})
    /\ nextId' = nextId + 2
    /\ op' = [op EXCEPT !.clicks = @ + 1, !.rechecks = @ + 1,
                        !.before = fixableIssues, !.threw = st.threw]

RecheckStart ==
    [pc |-> "recheck", clicks |-> 0, rechecks |-> 0, edits |-> 0, before |-> <<>>, threw |-> FALSE]

\* The styles the author may give e3.
RecheckLeaves ==
    {Leaf("div", "card", CssBlack, 16, "400"),
     Leaf("div", "card", CssGray118, 16, "400"),
     Leaf("div", "card", CssWhite, 16, "400"),
     Leaf("div", "md:flex", CssWhite, 16, "400")}

\* The pages re-checked: e3 in each of these styles, next to an input
\* without a name.
RecheckDocs ==
    {MkDoc(CssTransparent, CssTransparent, CssTransparent, CssTransparent,
           leaf, Other("unnamed")) : leaf \in RecheckLeaves}

InitRecheck ==
    /\ op = RecheckStart
    /\ doc \in RecheckDocs
    /\ appended = <<>>
    /\ timers = {}
    /\ clock = 0
    /\ nextId = 1
    /\ runs = 0
    /\ fixableIssues = <<>>
    /\ contrastIssues = <<>>
    /\ ariaIssues = <<>>
    /\ colorCache = {}
    /\ lastRun = "none"
    /\ reported = <<>>
    /\ adjust = Idle
    /\ pair = Idle
    /\ created = Idle
    /\ typo = Idle
    /\ layout = Idle

\* A click on #run-contrast-check of an attached results panel.
RerunContrastCheck ==
    /\ op.pc = "recheck"
    /\ op.clicks < MaxPanelClicks
    /\ FirstPanel(appended) # {}
    /\ recheckOutcome(Append(appended, Note(nextId)),
                      rerunContrastCheck(thisState, doc, Append(appended, Note(nextId))))
    /\ clock' = clock + 1
    /\ UNCHANGED <<doc, runs, ariaIssues, lastRun, reported, adjust, pair,
                   created, toolVars>>

\* A click on #close-a11y-analyzer of an attached results panel: cleanup(),
\* which fades out the first panel and detaches it 300 ms later, and
\* clears the colour cache.
RecheckClose ==
    /\ op.pc = "recheck"
    /\ op.clicks < MaxPanelClicks
    /\ FirstPanel(appended) # {}
    /\ timers' = timers \cup cleanupTimers(appended, clock)
    /\ colorCache' = {}
    /\ clock' = clock + 1
    /\ op' = [op EXCEPT !.clicks = @ + 1]
    /\ UNCHANGED <<doc, appended, nextId, runs, fixableIssues, contrastIssues,
                   ariaIssues, lastRun, reported, adjust, pair, created, toolVars>>

\* The author of the page restyles e3.
EditPage ==
    /\ op.pc = "recheck"
    /\ op.edits < MaxEdits
    /\ lastRun = "ok"
    /\ \E leaf \in RecheckLeaves \ {doc["e3"]} :
          doc' = [doc EXCEPT !["e3"] = leaf]
    /\ op' = [op EXCEPT !.edits = @ + 1]
    /\ UNCHANGED <<appended, timers, clock, nextId, runs, fixableIssues,
                   contrastIssues, ariaIssues, colorCache, lastRun, reported,
                   adjust, pair, created, toolVars>>

NextRecheck ==
    \/ runs < MaxAudits /\ Run
    \/ FireInterface
    \/ FireRemovePanel
    \/ FireRemoveNote
    \/ RerunContrastCheck
    \/ RecheckClose
    \/ EditPage

SpecRecheck == InitRecheck /\ [][NextRecheck]_vars

(***************************************************************************)
(* The nesting rule of the layout analyzer (collectLayoutData lines 70-99, *)
(* analyzeLayoutIssues lines 347-362), on pages deep enough for it: below  *)
(* the body a chain of nested spans that ends in a leaf, and one more      *)
(* element next to the chain, before or after it in document order.  A     *)
(* page is the sequence of its visible elements in document order, each    *)
(* with its tag, display, position and the place of its parent (0: the     *)
(* body).                                                                  *)
(***************************************************************************)
maxNestingDepth == 10

NestingNode(tag, display, parent) ==
    [tagName |-> tag, display |-> display, position |-> "static", parent |-> parent]

\* The chain of n spans and its leaf, the first of them at place first.
NestingChain(n, leafTag, leafDisplay, first) ==
    [i \in 1..(n + 1) |->
        IF i = n + 1
        THEN NestingNode(leafTag, leafDisplay, first + n - 1)
        ELSE NestingNode("span", "inline", IF i = 1 THEN 0 ELSE first + i - 2)]

NestingPage(n, leafTag, leafDisplay, extraTag, extraFirst) ==
    IF extraFirst
    THEN <<NestingNode(extraTag, "block", 0)>> \o NestingChain(n, leafTag, leafDisplay, 2)
    ELSE NestingChain(n, leafTag, leafDisplay, 1) \o <<NestingNode(extraTag, "block", 0)>>

NestingPages ==
    {NestingPage(n, leafTag, leafDisplay, extraTag, extraFirst) :
        n \in {9, 10, 11, 12}, leafTag \in {"div", "span", "p"},
        leafDisplay \in {"block", "inline"}, extraTag \in {"div", "span", "p"},
        extraFirst \in BOOLEAN}

\* getNestingLevel of the element at place i of the page.
RECURSIVE getNestingLevelIn(_, _)
getNestingLevelIn(page, i) ==
    IF page[i].parent = 0 THEN 0 ELSE 1 + getNestingLevelIn(page, page[i].parent)

\* Lines 70-97 for the element at place i: the entry of its key is created
\* from its layoutData if missing, and the element added to the entry.
nestingMapAdd(map, page, i) ==
    IF \E k \in 1..Len(map) : map[k].key = layoutKey(page[i])
    THEN [k \in 1..Len(map) |->
             IF map[k].key = layoutKey(page[i])
             THEN [map[k] EXCEPT !.elements = Append(@, i), !.count = @ + 1]
             ELSE map[k]]
    ELSE Append(map, [key |-> layoutKey(page[i]),
                      data |-> [element |-> i,
                                nestingLevel |-> getNestingLevelIn(page, i)],
                      elements |-> <<i>>, count |-> 1])

RECURSIVE nestingMapFrom(_, _, _)
nestingMapFrom(map, page, i) ==
    IF i > Len(page) THEN map ELSE nestingMapFrom(nestingMapAdd(map, page, i), page, i + 1)

\* The inner forEach of lines 350-361 over the elements of one entry.
deepNestingOfEntry(issues, data) ==
    IF data.data.nestingLevel > maxNestingDepth
    THEN issues \o [k \in 1..Len(data.elements) |->
                       [issueType |-> "deep-nesting", severity |-> "warning",
                        element |-> data.elements[k],
                        level |-> data.data.nestingLevel]]
    ELSE issues

\* The outer forEach of lines 349-362 over the entries of the map.
RECURSIVE deepNestingFrom(_, _, _)
deepNestingFrom(issues, map, k) ==
    IF k > Len(map) THEN issues ELSE deepNestingFrom(deepNestingOfEntry(issues, map[k]), map, k + 1)

InitNesting ==
    /\ AnalyzerIdle
    /\ adjust = Idle
    /\ pair = Idle
    /\ created = Idle
    /\ typo = Idle
    /\ layout = Idle
    /\ \E page \in NestingPages :
          op = [pc |-> "collect", page |-> page, layoutMap |-> <<>>, fixableIssues |-> <<>>]

\* collectLayoutData on the page.
CollectNesting ==
    /\ op.pc = "collect"
    /\ op' = [op EXCEPT !.pc = "analyze", !.layoutMap = nestingMapFrom(<<>>, op.page, 1)]
    /\ UNCHANGED <<analyzerVars, adjust, pair, created, toolVars>>

\* The nesting rule of analyzeLayoutIssues on the map collected.
AnalyzeNesting ==
    /\ op.pc = "analyze"
    /\ op' = [op EXCEPT !.pc = "done", !.fixableIssues = deepNestingFrom(<<>>, op.layoutMap, 1)]
    /\ UNCHANGED <<analyzerVars, adjust, pair, created, toolVars>>

NextNesting == CollectNesting \/ AnalyzeNesting

SpecNesting == InitNesting /\ [][NextNesting]_vars

(***************************************************************************)
(* copyFixesToClipboard of the two typography analyzers, followed through  *)
(* its try and catch blocks: that of src/find_troubles.js, which filters   *)
(* (op.filtering), and that of src/code.js, which does not.  A name read   *)
(* in a block must be declared in a scope that encloses the block, or the  *)
(* read throws a ReferenceError; an exception that leaves the async        *)
(* function rejects its promise.                                           *)
(***************************************************************************)
\* The names declared in the body of the function, outside the try
\* statement.
functionScope(filtering) ==
    IF filtering
    THEN {"filterType", "filteredIssues", "title", "fixesObject"}
    ELSE {"fixesObject"}

\* The const declarations of the try block.
tryScope(filtering) ==
    functionScope(filtering) \cup (IF filtering THEN {"typeLabels"} ELSE {})

\* The catch parameter and the const declaration of the catch block.
catchScope(filtering) == functionScope(filtering) \cup {"err", "textArea"}

\* The names the message of the notification of a block reads.
messageReads(filtering) == IF filtering THEN {"typeLabels", "filterType"} ELSE {}

\* The switch of find_troubles.js lines 694-706; src/code.js copies all.
clipboardFilter(issues, filtering, filterType) ==
    CASE filtering /\ filterType = "critical" ->
           SelectSeq(issues, LAMBDA issue : issue.severity = "critical")
      [] filtering /\ filterType = "non-critical" ->
           SelectSeq(issues, LAMBDA issue : issue.severity # "critical")
      [] OTHER -> issues

ClipboardStart(issues, filtering, filterType, writes) ==
    [pc |-> "call", fixableIssues |-> issues, filtering |-> filtering,
     filterType |-> filterType, writes |-> writes, filteredIssues |-> <<>>,
     body |-> <<>>, copied |-> "nothing", notifications |-> <<>>]

InitClipboard ==
    /\ AnalyzerIdle
    /\ adjust = Idle
    /\ pair = Idle
    /\ created = Idle
    /\ typo = Idle
    /\ layout = Idle
    /\ \E issues \in ListsOf(TypographyIssueKinds), filtering \in BOOLEAN,
          filterType \in {"all", "critical", "non-critical"}, writes \in BOOLEAN :
          /\ filtering \/ filterType = "all"
          /\ op = ClipboardStart(issues, filtering, filterType, writes)

\* Up to the try statement: the filter, the early return of
\* find_troubles.js when nothing matches, and the fixes object, whose sort
\* is that of copyFixesToClipboard above.
ClipboardEnter ==
    /\ op.pc = "call"
    /\ op' = IF op.filtering /\ clipboardFilter(op.fixableIssues, TRUE, op.filterType) = <<>>
             THEN [op EXCEPT !.pc = "resolved", !.notifications = Append(@, "nothing to copy")]
             ELSE [op EXCEPT !.pc = "try",
                      !.filteredIssues = clipboardFilter(op.fixableIssues, op.filtering, op.filterType),
                      !.fixableIssues = IF op.filtering THEN copyFixesToClipboard(@, op.filterType) ELSE @]
    /\ UNCHANGED <<analyzerVars, adjust, pair, created, toolVars>>

\* await navigator.clipboard.writeText(...): when it succeeds the rest of
\* the try block shows the success notification; when it fails (the
\* promise rejects, or navigator.clipboard is undefined) control is in the
\* catch block.
ClipboardWrite ==
    /\ op.pc = "try"
    /\ op' = IF ~op.writes
             THEN [op EXCEPT !.pc = "catch"]
             ELSE IF messageReads(op.filtering) \subseteq tryScope(op.filtering)
             THEN [op EXCEPT !.pc = "resolved", !.copied = "clipboard",
                             !.notifications = Append(@, "copied")]
             ELSE [op EXCEPT !.pc = "catch", !.copied = "clipboard"]
    /\ UNCHANGED <<analyzerVars, adjust, pair, created, toolVars>>

\* The catch block up to removeChild: the textarea is attached, copied
\* from with execCommand and detached.
ClipboardAttach ==
    /\ op.pc = "catch"
    /\ op' = [op EXCEPT !.pc = "attached", !.body = Append(@, "textarea")]
    /\ UNCHANGED <<analyzerVars, adjust, pair, created, toolVars>>

ClipboardDetach ==
    /\ op.pc = "attached"
    /\ op' = [op EXCEPT !.pc = "notify", !.copied = "execCommand",
                        !.body = SelectSeq(@, LAMBDA node : node # "textarea")]
    /\ UNCHANGED <<analyzerVars, adjust, pair, created, toolVars>>

\* The notification of the catch block: its message is evaluated first.
ClipboardNotify ==
    /\ op.pc = "notify"
    /\ op' = IF messageReads(op.filtering) \subseteq catchScope(op.filtering)
             THEN [op EXCEPT !.pc = "resolved", !.notifications = Append(@, "copied (fallback)")]
             ELSE [op EXCEPT !.pc = "rejected"]
    /\ UNCHANGED <<analyzerVars, adjust, pair, created, toolVars>>

NextClipboard ==
    ClipboardEnter \/ ClipboardWrite \/ ClipboardAttach \/ ClipboardDetach \/ ClipboardNotify

SpecClipboard == InitClipboard /\ [][NextClipboard]_vars

(***************************************************************************)
(* The export buttons of the results panel (renderExportPanel,             *)
(* setupExportEventListeners).  A click calls the handler of the button,   *)
(* an arrow function that calls a method of the analyzer; calling a name   *)
(* the analyzer object does not define throws a TypeError.  Thrown in the  *)
(* arrow function it leaves the click listener uncaught; thrown in an      *)
(* async method before its try statement it rejects the promise, which no  *)
(* one handles.                                                            *)
(***************************************************************************)
\* The ids of clickHandlers, each a button of renderExportPanel.
ExportButtons ==
    <<"copy-all-quick", "copy-critical-quick", "copy-automated-quick",
      "copy-visual", "copy-keyboard", "copy-semantic", "copy-motor",
      "copy-cognitive", "copy-wcag-report", "copy-developer-guide",
      "copy-testing-plan", "copy-executive-summary", "copy-css-fixes",
      "copy-html-improvements", "copy-js-enhancements", "copy-json-data">>

\* clickHandlers: the method a button calls and its argument.
clickHandler(id) ==
    CASE id = "copy-all-quick" -> [method |-> "copyAccessibilityFixes", argument |-> "all"]
      [] id = "copy-critical-quick" -> [method |-> "copyAccessibilityFixes", argument |-> "critical"]
      [] id = "copy-automated-quick" -> [method |-> "copyAccessibilityFixes", argument |-> "automated"]
      [] id = "copy-visual" -> [method |-> "copyByCategory", argument |-> "visual"]
      [] id = "copy-keyboard" -> [method |-> "copyByCategory", argument |-> "keyboard"]
      [] id = "copy-semantic" -> [method |-> "copyByCategory", argument |-> "semantic"]
      [] id = "copy-motor" -> [method |-> "copyByCategory", argument |-> "motor"]
      [] id = "copy-cognitive" -> [method |-> "copyByCategory", argument |-> "cognitive"]
      [] id = "copy-wcag-report" -> [method |-> "copyWCAGReport", argument |-> ""]
      [] id = "copy-developer-guide" -> [method |-> "copyDeveloperGuide", argument |-> ""]
      [] id = "copy-testing-plan" -> [method |-> "copyTestingPlan", argument |-> ""]
      [] id = "copy-executive-summary" -> [method |-> "copyExecutiveSummary", argument |-> ""]
      [] id = "copy-css-fixes" -> [method |-> "copyCSSFixes", argument |-> ""]
      [] id = "copy-html-improvements" -> [method |-> "copyHTMLImprovements", argument |-> ""]
      [] id = "copy-js-enhancements" -> [method |-> "copyJSEnhancements", argument |-> ""]
      [] id = "copy-json-data" -> [method |-> "copyJSONData", argument |-> ""]

\* The methods the analyzer object defines, of those the handlers and the
\* methods they call name.
AnalyzerMethods ==
    {"copyAccessibilityFixes", "copyByCategory", "copyWCAGReport",
     "copyDeveloperGuide", "copyTestingPlan", "calculateTotalFixTime",
     "generateAccessibilityResources", "generateAutomatedSolutions",
     "generateCodeExample", "generatePriorityRoadmap", "generateQuickWins",
     "generateTestingInstructions", "generateTestingStrategy",
     "getAccessibilityPriority", "getCategoryBreakdown", "getEstimatedFixTime",
     "getImpactAssessment", "calculateWCAGScore", "checkLevelCompliance",
     "generateCriteriaStatus", "generateWCAGRecommendations",
     "getPrincipleIssues", "generateAllCodeExamples",
     "generateDeveloperResources", "generateTestingChecklist",
     "showAccessibilityNotification"}

\* The issues a method selects before anything else, and returns on when
\* there are none.
exportFilter(issues, method, argument) ==
    CASE method = "copyAccessibilityFixes" /\ argument = "critical" ->
           SelectSeq(issues, LAMBDA issue : issue.severity = "critical")
      [] method = "copyAccessibilityFixes" /\ argument = "automated" ->
           SelectSeq(issues, LAMBDA issue : issue.automationPossible)
      [] method = "copyByCategory" ->
           SelectSeq(issues, LAMBDA issue : issue.category = argument)
      [] OTHER -> issues

returnsWhenEmpty(method) == method \in {"copyAccessibilityFixes", "copyByCategory"}

\* The methods a method calls while it builds what it copies, before its
\* try statement.
methodCalls(method, issues) ==
    CASE method = "copyAccessibilityFixes" ->
           {"calculateTotalFixTime", "getCategoryBreakdown", "getImpactAssessment",
            "getAccessibilityPriority", "getEstimatedFixTime", "generateCodeExample",
            "generateTestingInstructions", "generatePriorityRoadmap",
            "generateQuickWins", "generateAutomatedSolutions",
            "generateTestingStrategy", "generateAccessibilityResources"}
      [] method = "copyByCategory" -> {"calculateTotalFixTime"}
      [] method = "copyWCAGReport" ->
           {"calculateWCAGScore", "checkLevelCompliance", "getPrincipleIssues",
            "generateCriteriaStatus", "generateWCAGRecommendations"}
      [] method = "copyDeveloperGuide" ->
           {"generateAllCodeExamples", "generateTestingChecklist",
            "generateDeveloperResources"}
             \cup (IF Len(issues) > 1 THEN {"getAccessibilityPriority"} ELSE {})
      [] method = "copyTestingPlan" ->
           {"generateUserTestingScenarios"}
             \cup (IF issues # <<>> THEN {"getTestMethodForIssue"} ELSE {})
      [] OTHER -> {}

\* The in-place sort of state.fixableIssues in the methods that have one.
exportSort(issues, method, argument) ==
    CASE method = "copyAccessibilityFixes" -> copyAccessibilityFixes(issues, argument)
      [] method = "copyDeveloperGuide" -> copyDeveloperGuide(issues)
      [] OTHER -> issues

ButtonStart(id, issues, writes) ==
    [pc |-> "panel", button |-> id, fixableIssues |-> issues, writes |-> writes,
     method |-> "", argument |-> "", notifications |-> <<>>]

InitButtons ==
    /\ AnalyzerIdle
    /\ adjust = Idle
    /\ pair = Idle
    /\ created = Idle
    /\ typo = Idle
    /\ layout = Idle
    /\ \E i \in 1..Len(ExportButtons), writes \in BOOLEAN,
          issues \in ListsOf(ContrastIssueKinds \cup AriaIssueKinds) :
          /\ issues # <<>>
          /\ op = ButtonStart(ExportButtons[i], issues, writes)

\* The click listener of a button: handler().
ButtonClick ==
    /\ op.pc = "panel"
    /\ op' = IF clickHandler(op.button).method \in AnalyzerMethods
             THEN [op EXCEPT !.pc = "method", !.method = clickHandler(op.button).method,
                             !.argument = clickHandler(op.button).argument]
             ELSE [op EXCEPT !.pc = "uncaught"]
    /\ UNCHANGED <<analyzerVars, adjust, pair, created, toolVars>>

\* The method up to its try statement.
ButtonMethod ==
    /\ op.pc = "method"
    /\ op' = IF returnsWhenEmpty(op.method) /\ exportFilter(op.fixableIssues, op.method, op.argument) = <<>>
             THEN [op EXCEPT !.pc = "resolved", !.notifications = Append(@, "nothing to copy")]
             ELSE IF methodCalls(op.method, op.fixableIssues) \subseteq AnalyzerMethods
             THEN [op EXCEPT !.pc = "try",
                             !.fixableIssues = exportSort(@, op.method, op.argument)]
             ELSE [op EXCEPT !.pc = "rejected"]
    /\ UNCHANGED <<analyzerVars, adjust, pair, created, toolVars>>

\* The try statement: the notification of the try block when writeText
\* succeeds, that of the catch block when it fails.
ButtonWriteText ==
    /\ op.pc = "try"
    /\ op' = [op EXCEPT !.pc = "resolved",
                        !.notifications = Append(@, IF op.writes THEN "copied" ELSE "logged")]
    /\ UNCHANGED <<analyzerVars, adjust, pair, created, toolVars>>

NextButtons == ButtonClick \/ ButtonMethod \/ ButtonWriteText

SpecButtons == InitButtons /\ [][NextButtons]_vars

(***************************************************************************)
(* Vocabulary of the properties.                                           *)
(***************************************************************************)
\* The elements of the document as it is now.
Elements == {AllElements(doc, appended)[i] : i \in 1..Len(AllElements(doc, appended))}

PageElements == {PageNode(PageParts[i]) : i \in 1..Len(PageParts)}

\* A node whose own background colour is readable and not fully transparent.
Painted(n) ==
    /\ parseColor(Style(doc, n).backgroundColor) # Null
    /\ parseColor(Style(doc, n).backgroundColor).a > 0

\* The lowest painted node on the chain from n up to the document root
\* (NoNode when there is none).
RECURSIVE LowestPainted(_)
LowestPainted(n) ==
    IF n = NoNode THEN NoNode
    ELSE IF Painted(n) THEN n ELSE LowestPainted(parentElement(n))

OwnBackground(n) == parseColor(Style(doc, n).backgroundColor)

IsContrastIssue(issue) == issue.issueType \in {"contrast-aa", "contrast-aaa"}

\* The contrast issues of fixableIssues that are about element n.
ContrastIssuesOf(n) ==
    {i \in 1..Len(fixableIssues) :
        IsContrastIssue(fixableIssues[i]) /\ fixableIssues[i].element = n}

\* An element the contrast pass evaluates: it has text, a layout box (or is
\* the root) and a readable text colour.
Evaluated(n) ==
    /\ Style(doc, n).hasText
    /\ ~Style(doc, n).offsetParentNull \/ Style(doc, n).tagName = "HTML"
    /\ parseColor(Style(doc, n).color) # Null

RatioOf(n) ==
    calculateContrastRatio(parseColor(Style(doc, n).color),
                           getEffectiveBackgroundColor(doc, n))

RequirementsOf(n) ==
    getContrastRequirements(getFontSizeInPt(Style(doc, n).fontSize),
                            Style(doc, n).fontWeight, Style(doc, n))

ButtonLike(n) ==
    \/ Style(doc, n).tagName = "BUTTON"
    \/ Style(doc, n).role \in {"button", "tab", "menuitem"}

(***************************************************************************)
(* C1.  Two runs on an unchanged page report the same issues: whenever     *)
(* run() has returned twice, the second list equals the first in issue     *)
(* types, severities, selectors and affected-element counts.               *)
(***************************************************************************)
C1_SecondRunReportsSameIssues ==
    Len(reported) >= 2 => reported[2] = reported[1]

(***************************************************************************)
(* C2.  The audit always completes: run() never ends in its catch block,   *)
(* and after it every evaluated page element whose ratio is below its AAA  *)
(* threshold and whose selector the engine accepts has its contrast issue  *)
(* in the list handed to the interface.                                    *)
(***************************************************************************)
C2_AuditAlwaysCompletes ==
    runs > 0 =>
        /\ lastRun = "ok"
        /\ \A n \in PageElements :
              (/\ Evaluated(n)
               /\ RatioOf(n) < RequirementsOf(n).aaa
               /\ ~generateSelector(doc, appended, n).threw)
                  => ContrastIssuesOf(n) # {}

(***************************************************************************)
(* C3.  When the lowest painted node on the chain from an element up to    *)
(* the document root is fully opaque, getEffectiveBackgroundColor returns  *)
(* exactly the colour of that node, be it an inner ancestor, the body or   *)
(* the root.                                                               *)
(***************************************************************************)
C3_LowestOpaqueNodeDecides ==
    \A n \in Elements :
        (LowestPainted(n) # NoNode /\ OwnBackground(LowestPainted(n)).a = 100)
            => getEffectiveBackgroundColor(doc, n) = OwnBackground(LowestPainted(n))

(***************************************************************************)
(* C4.  getEffectiveBackgroundColor returns an opaque colour, and when     *)
(* the lowest painted node on the chain is translucent the result is that  *)
(* node's colour blended over the effective background of its parent.      *)
(***************************************************************************)
C4_TranslucentNodeIsBlended ==
    \A n \in Elements :
        /\ getEffectiveBackgroundColor(doc, n).a = 100
        /\ (LowestPainted(n) # NoNode /\ OwnBackground(LowestPainted(n)).a < 100)
              => getEffectiveBackgroundColor(doc, n) =
                    blendColors(OwnBackground(LowestPainted(n)),
                        getEffectiveBackgroundColor(doc,
                            parentElement(LowestPainted(n))))

(***************************************************************************)
(* C5.  When neither an element nor any of its ancestors is painted,       *)
(* getEffectiveBackgroundColor returns opaque white, and that is the       *)
(* background every contrast record of such an element carries.            *)
(***************************************************************************)
C5_UnpaintedChainIsWhite ==
    /\ \A n \in Elements :
          LowestPainted(n) = NoNode
              => getEffectiveBackgroundColor(doc, n) =
                    [r |-> 255, g |-> 255, b |-> 255, a |-> 100]
    /\ \A i \in 1..Len(contrastIssues) :
          LowestPainted(contrastIssues[i].element) = NoNode
              => contrastIssues[i].data.backgroundColor =
                    [r |-> 255, g |-> 255, b |-> 255, a |-> 100]

\* C5 witness: a pass has recorded a contrast issue for an element with no
\* painted node on its chain.
C5_Witness ==
    \E i \in 1..Len(contrastIssues) :
        /\ LowestPainted(contrastIssues[i].element) = NoNode
        /\ contrastIssues[i].data.backgroundColor.r = 255

(***************************************************************************)
(* C6.  After a pass, an evaluated page element has a contrast issue       *)
(* exactly when its ratio is below its AAA threshold, never more than      *)
(* one; the issue is critical/contrast-aa below the AA threshold and       *)
(* warning/contrast-aaa otherwise.                                         *)
(***************************************************************************)
C6_IssueExactlyBelowAAA ==
    runs > 0 =>
        \A n \in PageElements :
            Evaluated(n) =>
                /\ Cardinality(ContrastIssuesOf(n)) <= 1
                /\ ContrastIssuesOf(n) # {} <=> RatioOf(n) < RequirementsOf(n).aaa
                /\ \A i \in ContrastIssuesOf(n) :
                      IF RatioOf(n) < RequirementsOf(n).aa
                      THEN /\ fixableIssues[i].severity = "critical"
                           /\ fixableIssues[i].issueType = "contrast-aa"
                      ELSE /\ fixableIssues[i].severity = "warning"
                           /\ fixableIssues[i].issueType = "contrast-aaa"

\* The case of C7: grey rgb(118,118,118) text, 16px, normal weight, on an
\* effective background of white, in an element that is not button-like.
C7_Case(n) ==
    /\ Evaluated(n)
    /\ Style(doc, n).color = Rgb(118, 118, 118)
    /\ getEffectiveBackgroundColor(doc, n) = [r |-> 255, g |-> 255, b |-> 255, a |-> 100]
    /\ Style(doc, n).fontSize = 16
    /\ Style(doc, n).fontWeight = "400"
    /\ ~ButtonLike(n)

(***************************************************************************)
(* C7 as stated.  Grey 118 text on white at 16px normal weight fails the   *)
(* AA threshold 4.5 and gets exactly one contrast issue, a critical one.   *)
(***************************************************************************)
C7_Gray118OnWhiteIsCritical ==
    runs > 0 =>
        \A n \in PageElements :
            C7_Case(n) =>
                /\ RatioOf(n) < 4500
                /\ Cardinality(ContrastIssuesOf(n)) = 1
                /\ \A i \in ContrastIssuesOf(n) : fixableIssues[i].severity = "critical"

(***************************************************************************)
(* C7 as amended.  Grey 118 text on white at 16px normal weight has a      *)
(* ratio of about 4.54: it meets the AA threshold 4.5 and fails only the   *)
(* AAA threshold 7.0, so it never gets a critical issue; it gets at most   *)
(* one contrast issue, exactly one when run() completed, and that issue    *)
(* is a warning of type contrast-aaa.                                      *)
(***************************************************************************)
C7_Gray118OnWhiteIsWarning ==
    runs > 0 =>
        \A n \in PageElements :
            C7_Case(n) =>
                /\ RatioOf(n) >= 4500
                /\ RatioOf(n) < 7000
                /\ Cardinality(ContrastIssuesOf(n)) <= 1
                /\ lastRun = "ok" => Cardinality(ContrastIssuesOf(n)) = 1
                /\ \A i \in ContrastIssuesOf(n) :
                      /\ fixableIssues[i].severity = "warning"
                      /\ fixableIssues[i].issueType = "contrast-aaa"

\* C7 witness: a pass has reported the warning for such an element.
C7_Witness ==
    /\ runs > 0
    /\ \E n \in PageElements :
          /\ C7_Case(n)
          /\ \E i \in ContrastIssuesOf(n) : fixableIssues[i].severity = "warning"

\* The requirement the rule of C8 gives an element, from its size in px,
\* its weight and its tag and role.
C8_Expected(n) ==
    IF ButtonLike(n)
    THEN [type |-> "non-text", aa |-> 3000, aaa |-> 4500]
    ELSE IF \/ 3 * Style(doc, n).fontSize >= 4 * 18
            \/ /\ 3 * Style(doc, n).fontSize >= 4 * 14
               /\ Style(doc, n).fontWeight \in {"bold", "700", "800", "900"}
         THEN [type |-> "large-text", aa |-> 3000, aaa |-> 4500]
         ELSE [type |-> "normal-text", aa |-> 4500, aaa |-> 7000]

(***************************************************************************)
(* C8.  getContrastRequirements gives a button-like element the non-text   *)
(* requirement (3.0 / 4.5) whatever its size, other text of at least 18pt, *)
(* or of at least 14pt and bold, the large-text requirement (3.0 / 4.5),   *)
(* and everything else the normal-text requirement (4.5 / 7.0), with       *)
(* pt = px * 0.75; every contrast issue carries the requirement of its     *)
(* element.                                                                *)
(***************************************************************************)
C8_RequirementsByRoleSizeWeight ==
    /\ \A n \in Elements : RequirementsOf(n) = C8_Expected(n)
    /\ \A i \in 1..Len(fixableIssues) :
          IsContrastIssue(fixableIssues[i])
              => fixableIssues[i].data.requirements = C8_Expected(fixableIssues[i].element)

\* C8 witness: a pass has reported a 19px bold element (14.25pt) that is
\* not button-like, under the large-text requirement.
C8_Witness ==
    \E i \in 1..Len(fixableIssues) :
        /\ IsContrastIssue(fixableIssues[i])
        /\ Style(doc, fixableIssues[i].element).fontSize = 19
        /\ Style(doc, fixableIssues[i].element).fontWeight \in {"700", "bold"}
        /\ ~ButtonLike(fixableIssues[i].element)
        /\ fixableIssues[i].data.requirements.type = "large-text"

\* The case of C9: 18px, normal weight, not button-like.
C9_Case(n) ==
    /\ Style(doc, n).fontSize = 18
    /\ Style(doc, n).fontWeight = "400"
    /\ ~ButtonLike(n)

(***************************************************************************)
(* C9 as stated.  An 18px element of normal weight that is not             *)
(* button-like is large text and requires an AA ratio of 3.0.              *)
(***************************************************************************)
C9_18pxIsLargeText ==
    \A n \in Elements :
        C9_Case(n) =>
            /\ RequirementsOf(n).type = "large-text"
            /\ RequirementsOf(n).aa = 3000

(***************************************************************************)
(* C9 as amended.  An 18px element of normal weight that is not            *)
(* button-like is 13.5pt, below the 18pt of large text: it is normal text  *)
(* and requires an AA ratio of 4.5, and so does every contrast issue       *)
(* reported for it.                                                        *)
(***************************************************************************)
C9_18pxIsNormalText ==
    /\ \A n \in Elements :
          C9_Case(n) =>
              /\ RequirementsOf(n).type = "normal-text"
              /\ RequirementsOf(n).aa = 4500
    /\ \A i \in 1..Len(fixableIssues) :
          (IsContrastIssue(fixableIssues[i]) /\ C9_Case(fixableIssues[i].element))
              => fixableIssues[i].data.requirements.aa = 4500

\* C9 witness: a pass has reported an 18px element of normal weight.
C9_Witness ==
    \E i \in 1..Len(fixableIssues) :
        /\ IsContrastIssue(fixableIssues[i])
        /\ C9_Case(fixableIssues[i].element)
        /\ fixableIssues[i].data.requirements.type = "normal-text"

(***************************************************************************)
(* C10.  Text whose computed colour is fully transparent (alpha 0) is      *)
(* skipped: no contrast issue is ever about an element with such a text    *)
(* colour.                                                                 *)
(***************************************************************************)
C10_TransparentTextSkipped ==
    \A i \in 1..Len(fixableIssues) :
        IsContrastIssue(fixableIssues[i])
            => parseColor(Style(doc, fixableIssues[i].element).color).a > 0

(***************************************************************************)
(* C11.  An element whose text colour parseColor cannot read is the only   *)
(* thing left out of the contrast pass: every run() records the contrast   *)
(* issues that the pass records over the elements with a readable text     *)
(* colour alone, and none about an element with an unreadable one.         *)
(***************************************************************************)
ReadableText(d, as) ==
    SelectSeq(AllElements(d, as), LAMBDA n : parseColor(Style(d, n).color) # Null)

ContrastOnly(issues) == SelectSeq(issues, LAMBDA i : IsContrastIssue(i))

C11_AsIfAbsent(without) ==
    /\ contrastIssues' = without.contrastIssues
    /\ ContrastOnly(fixableIssues') = without.fixableIssues
    /\ \A i \in 1..Len(contrastIssues') :
          parseColor(Style(doc, contrastIssues'[i].element).color) # Null

C11_RunLeavesOutOnlyUnreadable(loading) ==
    C11_AsIfAbsent(contrastLoop(EmptyState, doc, loading, ReadableText(doc, loading)))

C11_UnreadableTextColorSkipsOnlyItself ==
    [][runs' # runs => C11_RunLeavesOutOnlyUnreadable(Append(appended, Note(nextId)))]_vars

\* A run has passed over e3, which has text and an unreadable text colour,
\* and has reported the element after it.
C11_Witness ==
    /\ runs >= 1
    /\ Style(doc, PageNode("e3")).hasText
    /\ parseColor(Style(doc, PageNode("e3")).color) = Null
    /\ ContrastIssuesOf(PageNode("e3")) = {}
    /\ ContrastIssuesOf(PageNode("e4")) # {}

(***************************************************************************)
(* C12.  adjustColorForContrast returns after at most 25 iterations, at    *)
(* the first ratio that is at least the target, moves each of r, g, b by   *)
(* exactly 10 per iteration in the requested direction, and keeps every    *)
(* channel within 0 .. 255.                                                *)
(***************************************************************************)
Channels(color) == {color.r, color.g, color.b}

\* At most 25 iterations; the loop goes on only below the target, and is
\* left below the target only at the cap; the channels stay in range.
C12_BoundedAndInRange ==
    adjust.pc # "idle" =>
        /\ adjust.iterations <= maxIterations
        /\ Len(adjust.visited) = adjust.iterations + 1
        /\ \A i \in 1..adjust.iterations : adjust.visited[i] < adjust.targetRatio
        /\ adjust.pc = "returned" =>
              adjust.currentRatio >= adjust.targetRatio
                  \/ adjust.iterations = maxIterations
        /\ Channels(adjust.adjustedColor) \subseteq 0..255

C12_MovedByTen(before, after, direction) ==
    /\ after.r = before.r + step(direction)
    /\ after.g = before.g + step(direction)
    /\ after.b = before.b + step(direction)

\* As claimed: bounded and in range, and every iteration moves every
\* channel by exactly 10.
C12_EveryChannelMovesByExactlyTen ==
    [][/\ C12_BoundedAndInRange
       /\ adjust'.iterations # adjust.iterations =>
             C12_MovedByTen(adjust.adjustedColor, adjust'.adjustedColor,
                            adjust.direction)]_vars

C12_MovedOrStopped(x, y, direction) ==
    IF direction = "darken"
    THEN IF x >= 10 THEN y = x - 10 ELSE y = 0
    ELSE IF x <= 245 THEN y = x + 10 ELSE y = 255

\* As the code does it: a channel moves by 10 in the requested direction,
\* or stops at the bound when it is within 10 of it; with the rest of the
\* claim.
C12_ChannelsMoveByTenOrStopAtBound ==
    [][/\ C12_BoundedAndInRange
       /\ adjust'.iterations # adjust.iterations =>
             /\ adjust'.iterations = adjust.iterations + 1
             /\ C12_MovedOrStopped(adjust.adjustedColor.r, adjust'.adjustedColor.r,
                                   adjust.direction)
             /\ C12_MovedOrStopped(adjust.adjustedColor.g, adjust'.adjustedColor.g,
                                   adjust.direction)
             /\ C12_MovedOrStopped(adjust.adjustedColor.b, adjust'.adjustedColor.b,
                                   adjust.direction)]_vars

\* A call has returned after an iteration that stopped a channel at a
\* bound.
C12_Witness ==
    /\ adjust.pc = "returned"
    /\ adjust.iterations >= 1
    /\ adjust.color.r = 5
    /\ adjust.adjustedColor.r = 0

(***************************************************************************)
(* C13.  adjustColorForContrast makes monotonic progress: the ratio        *)
(* against the reference colour after each iteration is at least the       *)
(* ratio before it, whatever the colour, the reference and the direction.  *)
(***************************************************************************)
C13_RatioNeverDecreases ==
    adjust.pc # "idle" =>
        \A i \in 2..Len(adjust.visited) : adjust.visited[i] >= adjust.visited[i - 1]

(***************************************************************************)
(* C14.  A call that reaches the iteration cap without meeting the target  *)
(* returns the best colour found: its ratio is at least that of the        *)
(* original colour and of every colour visited.                            *)
(***************************************************************************)
C14_ReturnedColorIsBest ==
    (/\ adjust.pc = "returned"
     /\ adjust.iterations = maxIterations
     /\ adjust.currentRatio < adjust.targetRatio)
        => \A i \in 1..Len(adjust.visited) : adjust.currentRatio >= adjust.visited[i]

(***************************************************************************)
(* C15.  calculateContrastRatio gives the same ratio for a pair of colours *)
(* in either order, never a ratio below 1, and exactly 1 for a colour      *)
(* against itself.                                                         *)
(***************************************************************************)
C15_RatioSymmetricAtLeastOne ==
    pair.pc = "colors" =>
        /\ pair.forward # <<>> => pair.forward[1] >= 1000
        /\ pair.backward # <<>> => pair.backward[1] >= 1000
        /\ (pair.forward # <<>> /\ pair.backward # <<>>)
              => pair.forward = pair.backward
        /\ (pair.forward # <<>> /\ pair.color1 = pair.color2)
              => pair.forward[1] = 1000

\* Both orders have been computed for a darker first colour, and for a
\* colour against itself.
C15_Witness ==
    /\ pair.pc = "colors"
    /\ pair.forward # <<>>
    /\ pair.backward # <<>>
    /\ getRelativeLuminance(pair.color1) < getRelativeLuminance(pair.color2)
    /\ pair.forward[1] > 1000

(***************************************************************************)
(* Vocabulary of the properties of the typography analyzer.                *)
(***************************************************************************)
TypoDom == {typoElements(typo)[i] : i \in 1..Len(typoElements(typo))}

\* The places of fontMap: entry i, position x of its element list.
TypoPlaces ==
    UNION {{<<i, x>> : x \in 1..Len(typo.fontMap[i].elements)} :
              i \in 1..Len(typo.fontMap)}

TypoAt(p) == typo.fontMap[p[1]].elements[p[2]]

SameFont(n, m) ==
    /\ typoStyle(typo, n).fontFamily = typoStyle(typo, m).fontFamily
    /\ typoStyle(typo, n).fontSize = typoStyle(typo, m).fontSize
    /\ typoStyle(typo, n).fontWeight = typoStyle(typo, m).fontWeight
    /\ typoStyle(typo, n).lineHeight = typoStyle(typo, m).lineHeight

\* The number of the four font values in which n and m differ.
FontDifference(n, m) ==
    (IF typoStyle(typo, n).fontFamily = typoStyle(typo, m).fontFamily THEN 0 ELSE 1)
    + (IF typoStyle(typo, n).fontSize = typoStyle(typo, m).fontSize THEN 0 ELSE 1)
    + (IF typoStyle(typo, n).fontWeight = typoStyle(typo, m).fontWeight THEN 0 ELSE 1)
    + (IF typoStyle(typo, n).lineHeight = typoStyle(typo, m).lineHeight THEN 0 ELSE 1)

\* An element collectTypographyData is to take in: not a script, style,
\* meta or link tag, and with a layout box or the root.
Participates(n) ==
    /\ typoStyle(typo, n).tagName \notin {"SCRIPT", "STYLE", "META", "LINK"}
    /\ ~typoStyle(typo, n).offsetParentNull \/ typoStyle(typo, n).tagName = "HTML"

(***************************************************************************)
(* C16.  Two elements of fontMap are in the same entry if and only if      *)
(* their fontFamily, fontSize, fontWeight and lineHeight are all equal.    *)
(***************************************************************************)
C16_SameBucketIffSameFont ==
    typo.runs >= 1 =>
        \A p \in TypoPlaces, q \in TypoPlaces :
            (p[1] = q[1]) <=> SameFont(TypoAt(p), TypoAt(q))

\* After a run, two different elements share an entry, and two elements
\* that differ in the font weight alone are in different entries.
C16_Witness ==
    /\ typo.runs >= 1
    /\ \E p \in TypoPlaces, q \in TypoPlaces : p[1] = q[1] /\ p[2] # q[2]
    /\ \E p \in TypoPlaces, q \in TypoPlaces :
          /\ p[1] # q[1]
          /\ FontDifference(TypoAt(p), TypoAt(q)) = 1
          /\ typoStyle(typo, TypoAt(p)).fontWeight # typoStyle(typo, TypoAt(q)).fontWeight

(***************************************************************************)
(* C17.  After collectTypographyData every element that is not a script,   *)
(* style, meta or link tag and has a layout box (or is the root) is in     *)
(* exactly one entry, and no other element is in any; an entry lists its   *)
(* elements in document order, its count is the length of that list and    *)
(* at least 1, and its metrics are those of its first element.             *)
(***************************************************************************)
C17_EntryWellFormed(data) ==
    /\ data.count = Len(data.elements)
    /\ data.count >= 1
    /\ \A x \in 1..Len(data.elements), y \in 1..Len(data.elements) :
          x < y => IndexOf(typoElements(typo), data.elements[x])
                       < IndexOf(typoElements(typo), data.elements[y])
    /\ data.metrics = fontMetrics(typoStyle(typo, data.elements[1]), data.elements[1])

C17_BucketsPartitionParticipants ==
    typo.runs >= 1 =>
        /\ \A p \in TypoPlaces : TypoAt(p) \in TypoDom
        /\ \A n \in TypoDom :
              Cardinality({p \in TypoPlaces : TypoAt(p) = n})
                  = IF Participates(n) THEN 1 ELSE 0
        /\ \A i \in 1..Len(typo.fontMap) : C17_EntryWellFormed(typo.fontMap[i])

\* After a run an entry holds two elements, and an element without a
\* layout box and an excluded tag are in the document.
C17_Witness ==
    /\ typo.runs >= 1
    /\ \E i \in 1..Len(typo.fontMap) : typo.fontMap[i].count >= 2
    /\ typo.page["c"].offsetParentNull
    /\ \E n \in TypoDom : typoStyle(typo, n).tagName = "STYLE"

(***************************************************************************)
(* C18.  analyzeIssues emits a 'redundant-style' issue of severity info    *)
(* for an entry exactly when its count is at the redundancy threshold,     *)
(* whatever other rules the entry triggers, and never for an entry of two  *)
(* or more elements.                                                       *)
(***************************************************************************)
RedundantIssuesOf(data) ==
    {k \in 1..Len(typo.fixableIssues) :
        /\ typo.fixableIssues[k].issueType = "redundant-style"
        /\ typo.fixableIssues[k].elements = data.elements}

C18_RedundantExactlyAtThreshold ==
    typo.runs >= 1 =>
        /\ \A i \in 1..Len(typo.fontMap) :
              Cardinality(RedundantIssuesOf(typo.fontMap[i]))
                  = IF typo.fontMap[i].count <= redundancyThreshold THEN 1 ELSE 0
        /\ \A k \in 1..Len(typo.fixableIssues) :
              typo.fixableIssues[k].issueType = "redundant-style"
                  => typo.fixableIssues[k].severity = "info"

C18_WhenRunCompleted == typo.lastRun = "ok" => C18_RedundantExactlyAtThreshold

(***************************************************************************)
(* C19.  Every fixable issue an analyzer creates carries a category that   *)
(* depends on its issue type alone and is one of visual, keyboard,         *)
(* semantic, motor, cognitive, structure, layout, other; a type missing    *)
(* from the lookup table gets 'other'.                                     *)
(***************************************************************************)
ClaimedCategories ==
    {"visual", "keyboard", "semantic", "motor", "cognitive", "structure",
     "layout", "other"}

C19_CategoryIsOneOfTheEight ==
    created.pc = "pushed" =>
        /\ "category" \in DOMAIN created.issue
        /\ created.issue.category \in ClaimedCategories
(***************************************************************************)
(* C20.  Every run() discards all state of the previous run before it      *)
(* recomputes: whatever the analyzer held when run() was called, the       *)
(* fingerprint map, the issue lists and the color cache it holds when      *)
(* run() returns are those a run started on empty state derives from the   *)
(* page as it is.  Checked of the three analyzers.                         *)
(***************************************************************************)
accessibilityState(st) ==
    <<st.fixableIssues, st.contrastIssues, st.ariaIssues, st.colorCache>>

typographyState(t) == <<t.fontMap, t.issues, t.fixableIssues>>

layoutState(l) ==
    <<l.layoutMap, l.semanticStructure, l.flexboxElements, l.issues, l.fixableIssues,
      l.pageStructure>>

C20_AccessibilityRunStartsEmpty ==
    runs' # runs =>
        accessibilityState(thisState)' =
            accessibilityState(
                analyzeAccessibility(EmptyState, doc, Append(appended, Note(nextId))))

C20_TypographyRunStartsEmpty ==
    (typo # Idle /\ typo' # typo /\ typo'.runs # typo.runs) =>
        typographyState(typo') =
            typographyState(typography_run(
                [typo EXCEPT !.fontMap = <<>>, !.issues = <<>>, !.fixableIssues = <<>>]))

C20_LayoutRunStartsEmpty ==
    (layout # Idle /\ layout' # layout /\ layout'.runs # layout.runs) =>
        layoutState(layout') =
            layoutState(layout_run(
                [layout EXCEPT
                    !.layoutMap = <<>>, !.semanticStructure = <<>>,
                    !.flexboxElements = <<>>, !.issues = <<>>, !.fixableIssues = <<>>,
                    !.pageStructure = EmptyPageStructure]))

C20_RunDiscardsPreviousState ==
    [][/\ C20_AccessibilityRunStartsEmpty
       /\ C20_TypographyRunStartsEmpty
       /\ C20_LayoutRunStartsEmpty]_vars

\* A second run of the layout analyzer has returned, the first having left
\* buckets, flex containers, headings and issues behind.
C20_Witness ==
    /\ layout # Idle
    /\ layout.runs = 2
    /\ layout.lastRun = "ok"
    /\ layout.layoutMap # <<>>
    /\ layout.flexboxElements # <<>>
    /\ layout.pageStructure.headingHierarchy # <<>>
    /\ layout.fixableIssues # <<>>

(***************************************************************************)
(* C21.  The contrast analysis does not change the audited document: the   *)
(* elements attached to the document when analyzeColorContrast returns     *)
(* (or is left by an exception) are those attached when it was called,     *)
(* and the temporary node of parseColor is attached only while parseColor  *)
(* is running, on cache hits and misses alike.                             *)
(***************************************************************************)
C21_DocumentUnchanged ==
    /\ op.pc # "parsing" => op.body = <<>>
    /\ op.pc = "parsing" => op.body = <<TempDiv>>
    /\ op.pc \in {"returned", "threw"} =>
          AllElements(op.d, <<>>) \o op.body = ContrastCall(op.d, {}).elements
    /\ op.pc \in {"contrast", "returned", "threw"} => op.cache = op.st.colorCache

\* The pass has returned after parseColor has answered from the cache and
\* has attached its temporary node, and has found a contrast issue.
C21_Witness ==
    /\ op.pc = "returned"
    /\ op.hits
    /\ op.misses
    /\ op.st.contrastIssues # <<>>

(***************************************************************************)
(* C22.  At most one results panel of an analyzer is attached to the       *)
(* document at any time, whatever the order of run() calls and timer       *)
(* firings: of the accessibility analyzer at most one container            *)
(* 'accessibility-analyzer-results', of the layout analyzer at most one    *)
(* container 'ui-ux-analyzer-results'.                                     *)
(***************************************************************************)
panelsAttached(as, kind) == {i \in 1..Len(as) : as[i].kind = kind}

C22_AtMostOnePanel ==
    /\ Cardinality(panelsAttached(appended, "panel")) <= 1
    /\ layout # Idle => Cardinality(panelsAttached(layout.attached, "table")) <= 1

(***************************************************************************)
(* C23.  Every highlight overlay is detached once clearHighlights,         *)
(* cleanup or a new run() has been invoked and the pending timers have     *)
(* fired: when no timer is pending, the overlays attached are those of     *)
(* the latest highlight, still held in state.highlightedElements; no       *)
(* overlay created before a run() stays attached after it.                 *)
(***************************************************************************)
C23_OverlaysDetached ==
    op.timers = {} => op.overlays \subseteq op.highlightedElements

\* Without a run() after the first, the overlays are detached.
C23_DetachedWithinOneRun ==
    (op.timers = {} /\ op.runs <= 1) => op.overlays \subseteq op.highlightedElements

(***************************************************************************)
(* C24.  Rendering and export only read the audit result: renderIssues,    *)
(* copyAccessibilityFixes, copyDeveloperGuide and copyFixesToClipboard     *)
(* leave state.fixableIssues as it was, members and order, for every       *)
(* filter type.                                                            *)
(***************************************************************************)
C24_ExportLeavesIssuesUnchanged ==
    [][/\ op'.fixableIssues = op.fixableIssues
       /\ op'.typographyIssues = op.typographyIssues]_vars

\* The members are kept: each issue occurs as often after as before.
occurrences(seq, x) == Cardinality({i \in 1..Len(seq) : seq[i] = x})

C24_ExportKeepsMembers ==
    [][/\ Len(op'.fixableIssues) = Len(op.fixableIssues)
       /\ \A x \in ContrastIssueKinds \cup AriaIssueKinds :
             occurrences(op'.fixableIssues, x) = occurrences(op.fixableIssues, x)
       /\ Len(op'.typographyIssues) = Len(op.typographyIssues)
       /\ \A x \in TypographyIssueKinds :
             occurrences(op'.typographyIssues, x) = occurrences(op.typographyIssues, x)]_vars

(***************************************************************************)
(* C25.  calculateWCAGScore returns an integer percentage between 0 and    *)
(* 100 for every set of fixable issues, and 100 exactly when there are no  *)
(* fixable issues.                                                         *)
(***************************************************************************)
C25_ScoreIsPercentage ==
    op.score # <<>> =>
        /\ op.score[1] \in 0..100
        /\ op.score[1] = 100 <=> op.types = {}

\* The second half alone: 100 exactly without fixable issues.
C25_FullScoreIffNoIssues ==
    op.score # <<>> => (op.score[1] = 100 <=> op.types = {})

(***************************************************************************)
(* C26.  For every contrast-aaa issue (the ratio meets AA but not AAA)     *)
(* suggestContrastFix returns the current text colour and the current      *)
(* background colour of the element unchanged: both solver calls target    *)
(* the AA ratio, which is met, and make no iteration.                      *)
(***************************************************************************)
C26_EnhancedContrastFixChangesNothing ==
    \A i \in 1..Len(fixableIssues) :
        fixableIssues[i].issueType = "contrast-aaa" =>
            /\ suggestContrastFix(fixableIssues[i].data).iterations = 0
            /\ suggestContrastFix(fixableIssues[i].data).color
                   = colorToHex(fixableIssues[i].data.textColor)
            /\ suggestContrastFix(fixableIssues[i].data).background
                   = colorToHex(fixableIssues[i].data.backgroundColor)

\* A run has reported a contrast-aaa issue, and a contrast-aa issue whose
\* suggested fix does change a colour.
C26_Witness ==
    /\ \E i \in 1..Len(fixableIssues) : fixableIssues[i].issueType = "contrast-aaa"
    /\ \E i \in 1..Len(fixableIssues) :
          /\ fixableIssues[i].issueType = "contrast-aa"
          /\ suggestContrastFix(fixableIssues[i].data).iterations > 0

(***************************************************************************)
(* C27.  rerunContrastCheck removes every contrast issue of the previous   *)
(* check, keeps the fixable issues of the other kinds in their order, and  *)
(* once it has returned state.fixableIssues holds exactly one contrast     *)
(* issue for each element whose contrast fails now, in document order,     *)
(* after the first re-check and after every later one.                     *)
(***************************************************************************)
\* The body of analyzeColorContrast reports the element as it is now.
failsContrast(d, as, element) ==
    contrastElement(EmptyState, d, as, element).contrastIssues # <<>>

\* The elements of the contrast issues of a list, in order.
contrastIssueElements(issues) ==
    LET found == SelectSeq(issues, LAMBDA issue : includesContrast(issue.issueType))
    IN [i \in 1..Len(found) |-> found[i].element]

otherIssues(issues) ==
    SelectSeq(issues, LAMBDA issue : ~includesContrast(issue.issueType))

recheckedElements ==
    SelectSeq(AllElements(doc, Append(appended, Note(nextId))),
              LAMBDA element :
                  failsContrast(doc, Append(appended, Note(nextId)), element))

C28_DeepNestingIffOwnLevel ==
    op.pc = "done" =>
        \A i \in 1..Len(op.page) :
            (\E k \in 1..Len(op.fixableIssues) : op.fixableIssues[k].element = i)
                <=> getNestingLevelIn(op.page, i) > maxNestingDepth

(***************************************************************************)
(* C29.  When navigator.clipboard.writeText fails, copyFixesToClipboard of *)
(* the filtering typography analyzer copies through the textarea, shows    *)
(* the fallback notification and its promise resolves, for every filter    *)
(* type that at least one issue matches.                                   *)
(***************************************************************************)
C29_FallbackCopiesAndNotifies ==
    (/\ op.pc \in {"resolved", "rejected"}
     /\ op.filtering
     /\ ~op.writes
     /\ op.filteredIssues # <<>>) =>
        /\ op.pc = "resolved"
        /\ op.copied = "execCommand"
        /\ op.body = <<>>
        /\ op.notifications = <<"copied (fallback)">>

(***************************************************************************)
(* C30.  Each of the sixteen export buttons calls a method the analyzer    *)
(* defines, and the call completes: no click ends in an uncaught error or  *)
(* in a rejected promise.                                                  *)
(***************************************************************************)
C30_EveryExportButtonCompletes ==
    op.pc # "panel" =>
        /\ clickHandler(op.button).method \in AnalyzerMethods
        /\ op.pc \notin {"uncaught", "rejected"}

====
